---- MODULE Spec2Model ----
(***************************************************************************)
(* Model of the billing core of electricity-invoice-calculator:            *)
(* period generation (lib/billing periods), period classification,         *)
(* consumption and spot price estimation (lib/billing/frequency.go), the   *)
(* tariff cost engine (lib/billing tariffs) and the bill of main.go.       *)
(*                                                                         *)
(* Time.  An instant (Go time.Time) is an integer number of ticks since    *)
(* 2022-01-01T00:00:00Z; one hour is TicksPerHour ticks, so instants that  *)
(* are not on a whole hour exist.  Civil time is Europe/Copenhagen:        *)
(* UTC+1, and UTC+2 between the last Sunday of March 01:00 UTC and the     *)
(* last Sunday of October 01:00 UTC.                                       *)
(*                                                                         *)
(* Numbers.  A float64 is an exact rational [num, den]: energy in units of *)
(* 1/10000 kWh, prices in DKK, money in units of 1/10000 DKK; a division   *)
(* by zero yields the IEEE-754 values the Go float64 division yields       *)
(* ("+Inf", "-Inf", "NaN"), a denominator 0.                               *)
(***************************************************************************)
EXTENDS Integers, Sequences, FiniteSets, TLC

VARIABLES
    pc,                 \* position of the run
    clock,              \* the instant time.Now() returns
    consumerStartDate,  \* main.go: parsed ConsumerStartDate
    frequency,          \* BillingFrequency
    calculationType,    \* CalculationType
    periods,            \* result of GenerateAvailablePeriods
    err,                \* error returned by the last call ("" is nil)
    selectedPeriod,     \* the Period handed to DeterminePeriodType / estimators
    periodType,         \* result of DeterminePeriodType
    estimatedAnnualVolume, \* meter point detail, an int
    consumption,        \* main.go consumptionData: the hourly consumption series
    priceArea,          \* result of FindPriceArea
    useHistoricalPrices, \* the user's choice of the spot price method
    reply,              \* the last answer of the external spot price source
    spotPrices,         \* main.go spotPrices
    estimation,         \* the AcontoEstimation or HybridEstimation
    totalConsumption,   \* main.go totalConsumption
    chargesData,        \* result of eloverblik.GetCharges
    hourlyTariffCosts,  \* result of CalculateAllHourlyTariffs
    bill,               \* the totals main prints
    stages              \* the stages of the run so far, in order

billVars == <<priceArea, useHistoricalPrices, reply, spotPrices, estimation,
              totalConsumption, chargesData, hourlyTariffCosts, bill>>

vars == <<pc, clock, consumerStartDate, frequency, calculationType, periods,
          err, selectedPeriod, periodType, estimatedAnnualVolume, consumption,
          billVars, stages>>

----------------------------------------------------------------------------
(* Bounds of the model *)

TicksPerHour == 2       \* resolution of an instant: ticks per hour
NumNowMonths == 15      \* months from January 2023 in which time.Now() is sampled
NumStartMonths == 12    \* months from January 2023 in which the consumer start is sampled
MaxSpanTicks == 5       \* longest of the short spans handed to the estimator, in ticks
NumRunMonths == 1       \* months from March 2023 in which a whole run is sampled
MaxChoice == 2          \* the user selects one of the first MaxChoice periods
MeteredHours == 2       \* hours of metered consumption the source returns


----------------------------------------------------------------------------
(* Calendar: what the Go time package computes for Date, In, AddDate *)

Hour == TicksPerHour
Day == 24 * Hour

IsLeap(y) == (y % 4 = 0 /\ y % 100 # 0) \/ y % 400 = 0

DaysIn(y, m) ==
    IF m = 2 THEN (IF IsLeap(y) THEN 29 ELSE 28)
    ELSE IF m \in {4, 6, 9, 11} THEN 30 ELSE 31

\* days from 0001-01-01 to y-01-01
DaysBeforeYear(y) ==
    365 * (y - 1) + ((y - 1) \div 4) - ((y - 1) \div 100) + ((y - 1) \div 400)

DaysBeforeMonth(y, m) ==
    <<0, 31, 59, 90, 120, 151, 181, 212, 243, 273, 304, 334>>[m]
    + (IF m > 2 /\ IsLeap(y) THEN 1 ELSE 0)

\* day number of the civil date y-m-d; m and d may be out of range and are
\* normalised as time.Date does
DayNumber(y, m, d) ==
    DaysBeforeYear(y + ((m - 1) \div 12))
    + DaysBeforeMonth(y + ((m - 1) \div 12), ((m - 1) % 12) + 1) + (d - 1)

EpochDay == DaysBeforeYear(2022)

\* ticks of the wall-clock reading y-m-d h:sub taken as if it were UTC
WallTicks(y, m, d, h, sub) ==
    ((DayNumber(y, m, d) - EpochDay) * 24 + h) * Hour + sub

\* 0001-01-01 is a Monday: 0 = Monday ... 6 = Sunday
Weekday(dayNumber) == dayNumber % 7

LastSundayBefore(lastDayOfMonth) ==
    lastDayOfMonth - ((Weekday(lastDayOfMonth) + 1) % 7)

LastSunday(y, m) == LastSundayBefore(DayNumber(y, m, DaysIn(y, m)))

CalendarYears == 2020 .. 2032

\* summer time [start, end) of each year, in UTC ticks: from the last Sunday
\* of March 01:00 UTC to the last Sunday of October 01:00 UTC
SummerTime ==
    [y \in CalendarYears |->
        [start |-> ((LastSunday(y, 3) - EpochDay) * 24 + 1) * Hour,
         end |-> ((LastSunday(y, 10) - EpochDay) * 24 + 1) * Hour]]

\* zone offset of Europe/Copenhagen in force at UTC instant u
CopenhagenOffset(u) ==
    IF \E y \in CalendarYears : SummerTime[y].start <= u /\ u < SummerTime[y].end
    THEN 2 * Hour
    ELSE Hour

\* the civil date of a day number (days since 0001-01-01), computed as the
\* time package does: from the 400-, 100-, 4- and 1-year cycles
CivilOfYearDay(y, yday) ==
    [year |-> y,
     month |-> CHOOSE k \in 1 .. 12 :
                   /\ DaysBeforeMonth(y, k) <= yday
                   /\ yday < DaysBeforeMonth(y, k) + DaysIn(y, k),
     yday |-> yday]

CivilOfCycles(n400, n100, n4, n1, rest) ==
    IF n100 = 4 \/ n1 = 4
    THEN CivilOfYearDay(400 * n400 + 100 * n100 + 4 * n4 + n1, 365)
    ELSE CivilOfYearDay(400 * n400 + 100 * n100 + 4 * n4 + n1 + 1, rest)

CivilOf4(n400, n100, n4, d) ==
    CivilOfCycles(n400, n100, n4,
                  IF d \div 365 > 3 THEN 3 ELSE d \div 365,
                  d - 365 * (IF d \div 365 > 3 THEN 3 ELSE d \div 365))

CivilOf100(n400, n100, d) == CivilOf4(n400, n100, d \div 1461, d % 1461)

CivilOf400(n400, d) ==
    CivilOf100(n400, IF d \div 36524 > 3 THEN 3 ELSE d \div 36524,
               d - 36524 * (IF d \div 36524 > 3 THEN 3 ELSE d \div 36524))

CivilOfDay(dayNumber) == CivilOf400(dayNumber \div 146097, dayNumber % 146097)

CivilOfWall(w, c) ==
    [year |-> c.year, month |-> c.month,
     day |-> c.yday - DaysBeforeMonth(c.year, c.month) + 1,
     hour |-> (w % Day) \div Hour, sub |-> w % Hour]

WallReading(w) == CivilOfWall(w, CivilOfDay((w \div Day) + EpochDay))

\* t.In(copenhagen): the civil reading of instant u
InCopenhagen(u) == WallReading(u + CopenhagenOffset(u))

\* time.Date(y, m, d, h, .., copenhagen): the offset is looked up at the wall
\* reading and, when the result leaves that zone period, at the result
ResolveWall(unix, offset) ==
    IF CopenhagenOffset(unix - offset) # offset
    THEN unix - CopenhagenOffset(unix - offset)
    ELSE unix - offset

DateOfWall(unix) == ResolveWall(unix, CopenhagenOffset(unix))

DateIn(y, m, d, h, sub) == DateOfWall(WallTicks(y, m, d, h, sub))

AddDateCivil(c, years, months, days) ==
    DateIn(c.year + years, c.month + months, c.day + days, c.hour, c.sub)

\* t.AddDate(years, months, days) for t located in Europe/Copenhagen
AddDate(t, years, months, days) ==
    AddDateCivil(InCopenhagen(t), years, months, days)

----------------------------------------------------------------------------
(* Types of the billing package *)

Monthly == "monthly"
Quarterly == "quarterly"
Historical == "historical"
Aconto == "aconto"

PeriodHistorical == "historical"
PeriodAconto == "aconto"
PeriodHybrid == "hybrid"

NoError == ""
NoTime == -1

MonthName ==
    <<"January", "February", "March", "April", "May", "June", "July",
      "August", "September", "October", "November", "December">>

\* current.Format("January 2006")
MonthLabel(t) ==
    LET c == InCopenhagen(t) IN [name |-> MonthName[c.month], year |-> c.year]

\* quarter := ((int(current.Month()) - 1) / 3) + 1; fmt.Sprintf("Q%d %d", ...)
QuarterLabel(t) ==
    LET c == InCopenhagen(t)
        quarter == ((c.month - 1) \div 3) + 1
    IN  [name |-> <<"Q1", "Q2", "Q3", "Q4">>[quarter], year |-> c.year]

\* fmt.Sprintf("%s (Aconto)", label)
AcontoLabel(label) == [name |-> label.name, year |-> label.year, suffix |-> "(Aconto)"]
PlainLabel(label) == [name |-> label.name, year |-> label.year, suffix |-> ""]

----------------------------------------------------------------------------
(* Period generation *)

GetFirstCompleteQuarter(startDate) ==
    LET localStart == InCopenhagen(startDate)
        year == localStart.year
        quarters == <<DateIn(year, 1, 1, 0, 0), DateIn(year, 4, 1, 0, 0),
                      DateIn(year, 7, 1, 0, 0), DateIn(year, 10, 1, 0, 0)>>
        after == {i \in 1 .. 4 : quarters[i] > startDate}
    IN  IF after # {}
        THEN quarters[CHOOSE i \in after : \A j \in after : i <= j]
        ELSE DateIn(year + 1, 1, 1, 0, 0)

\* variant: the month is read in UTC, not in Copenhagen time
GetFirstCompleteMonth_UTC(startDate) ==
    LET utcStart == WallReading(startDate)
        nextMonth == IF utcStart.month + 1 > 12 THEN 1 ELSE utcStart.month + 1
        nextYear == IF utcStart.month + 1 > 12 THEN utcStart.year + 1 ELSE utcStart.year
    IN  DateIn(nextYear, nextMonth, 1, 0, 0)

GetFirstCompleteMonth(startDate) ==
    LET localStart == InCopenhagen(startDate)
        year == localStart.year
        month == localStart.month
        nextMonth == IF month + 1 > 12 THEN 1 ELSE month + 1
        nextYear == IF month + 1 > 12 THEN year + 1 ELSE year
    IN  DateIn(nextYear, nextMonth, 1, 0, 0)

\* variant: in January the year is not stepped back
GetLastCompletePeriod_SameYear(freq, now) ==
    LET n == InCopenhagen(now)
        year == n.year
        month == n.month
    IN  CASE freq = Monthly ->
               IF month = 1
               THEN [t |-> DateIn(year, 12, 1, 0, 0), err |-> NoError]
               ELSE [t |-> DateIn(year, month - 1, 1, 0, 0), err |-> NoError]
          [] freq = Quarterly ->
               IF month >= 10 THEN [t |-> DateIn(year, 7, 1, 0, 0), err |-> NoError]
               ELSE IF month >= 7 THEN [t |-> DateIn(year, 4, 1, 0, 0), err |-> NoError]
               ELSE IF month >= 4 THEN [t |-> DateIn(year, 1, 1, 0, 0), err |-> NoError]
               ELSE [t |-> DateIn(year, 10, 1, 0, 0), err |-> NoError]
          [] OTHER -> [t |-> NoTime, err |-> "invalid billing frequency"]

\* now is the value of time.Now() read at line 105
GetLastCompletePeriod(freq, now) ==
    LET n == InCopenhagen(now)
        year == n.year
        month == n.month
    IN  CASE freq = Monthly ->
               IF month = 1
               THEN [t |-> DateIn(year - 1, 12, 1, 0, 0), err |-> NoError]
               ELSE [t |-> DateIn(year, month - 1, 1, 0, 0), err |-> NoError]
          [] freq = Quarterly ->
               IF month >= 10 THEN [t |-> DateIn(year, 7, 1, 0, 0), err |-> NoError]
               ELSE IF month >= 7 THEN [t |-> DateIn(year, 4, 1, 0, 0), err |-> NoError]
               ELSE IF month >= 4 THEN [t |-> DateIn(year, 1, 1, 0, 0), err |-> NoError]
               ELSE [t |-> DateIn(year - 1, 10, 1, 0, 0), err |-> NoError]
          [] OTHER -> [t |-> NoTime, err |-> "invalid billing frequency"]

\* the loop of lines 155-164: i periods left, next one starting startYear-startMonth
RECURSIVE MonthlyStarts(_, _, _)
MonthlyStarts(i, startYear, startMonth) ==
    IF i = 0 THEN <<>>
    ELSE <<DateIn(startYear, startMonth, 1, 0, 0)>>
         \o (IF startMonth + 1 > 12
             THEN MonthlyStarts(i - 1, startYear + 1, 1)
             ELSE MonthlyStarts(i - 1, startYear, startMonth + 1))

\* variant: the year is not advanced when the quarter month wraps
RECURSIVE QuarterlyStarts_NoYearStep(_, _, _)
QuarterlyStarts_NoYearStep(i, year, nextQuarter) ==
    IF i = 0 THEN <<>>
    ELSE <<DateIn(year, nextQuarter, 1, 0, 0)>>
         \o (IF nextQuarter + 3 > 12
             THEN QuarterlyStarts_NoYearStep(i - 1, year, 1)
             ELSE QuarterlyStarts_NoYearStep(i - 1, year, nextQuarter + 3))

\* the loop of lines 182-191
RECURSIVE QuarterlyStarts(_, _, _)
QuarterlyStarts(i, year, nextQuarter) ==
    IF i = 0 THEN <<>>
    ELSE <<DateIn(year, nextQuarter, 1, 0, 0)>>
         \o (IF nextQuarter + 3 > 12
             THEN QuarterlyStarts(i - 1, year + 1, 1)
             ELSE QuarterlyStarts(i - 1, year, nextQuarter + 3))

\* lines 170-180: the first quarter month and its year
NextQuarterOf(year, currentMonth) ==
    IF currentMonth < 3 THEN [month |-> 4, year |-> year]
    ELSE IF currentMonth < 6 THEN [month |-> 7, year |-> year]
    ELSE IF currentMonth < 9 THEN [month |-> 10, year |-> year]
    ELSE [month |-> 1, year |-> year + 1]

\* variant: the switch has no default case
GetNextAcontoPeriods_NoDefault(freq, numberOfPeriods, now) ==
    LET n == InCopenhagen(now)
    IN  CASE freq = Monthly ->
               [starts |-> MonthlyStarts(numberOfPeriods, n.year, n.month),
                err |-> NoError]
          [] freq = Quarterly ->
               LET q == NextQuarterOf(n.year, n.month)
               IN  [starts |-> QuarterlyStarts(numberOfPeriods, q.year, q.month),
                    err |-> NoError]
          [] OTHER -> [starts |-> <<>>, err |-> NoError]

\* now is the value of time.Now() read at line 140
GetNextAcontoPeriods(freq, numberOfPeriods, now) ==
    LET n == InCopenhagen(now)
    IN  CASE freq = Monthly ->
               [starts |-> MonthlyStarts(numberOfPeriods, n.year, n.month),
                err |-> NoError]
          [] freq = Quarterly ->
               LET q == NextQuarterOf(n.year, n.month)
               IN  [starts |-> QuarterlyStarts(numberOfPeriods, q.year, q.month),
                    err |-> NoError]
          [] OTHER -> [starts |-> <<>>, err |-> "invalid billing frequency"]

\* variant: the end is the last day of the period, not the next period's start
PeriodEnd_LastDay(current, freq) ==
    IF freq = Monthly THEN AddDate(current, 0, 1, -1)
    ELSE IF freq = Quarterly THEN AddDate(current, 0, 3, -1)
    ELSE NoTime

\* lines 224-231 and 259-266: end and label of the period starting at current
PeriodEnd(current, freq) ==
    IF freq = Monthly THEN AddDate(current, 0, 1, 0)
    ELSE IF freq = Quarterly THEN AddDate(current, 0, 3, 0)
    ELSE NoTime

PeriodLabel(current, freq) ==
    IF freq = Monthly THEN MonthLabel(current)
    ELSE IF freq = Quarterly THEN QuarterLabel(current)
    ELSE [name |-> "", year |-> 0]

\* lines 241-245: the next value of current
StepPeriod(current, freq) ==
    IF freq = Monthly THEN AddDate(current, 0, 1, 0)
    ELSE IF freq = Quarterly THEN AddDate(current, 0, 3, 0)
    ELSE current

\* variant: the loop stops before the last complete period
RECURSIVE HistoricalPeriods_Exclusive(_, _, _)
HistoricalPeriods_Exclusive(current, lastPeriod, freq) ==
    IF current >= lastPeriod THEN <<>>
    ELSE <<[Start |-> current,
            End |-> PeriodEnd(current, freq),
            Label |-> PlainLabel(PeriodLabel(current, freq)),
            Frequency |-> freq,
            CalculationType |-> Historical]>>
         \o HistoricalPeriods_Exclusive(StepPeriod(current, freq), lastPeriod, freq)

\* the loop of lines 220-246
RECURSIVE HistoricalPeriods(_, _, _)
HistoricalPeriods(current, lastPeriod, freq) ==
    IF current > lastPeriod THEN <<>>
    ELSE <<[Start |-> current,
            End |-> PeriodEnd(current, freq),
            Label |-> PlainLabel(PeriodLabel(current, freq)),
            Frequency |-> freq,
            CalculationType |-> Historical]>>
         \o HistoricalPeriods(StepPeriod(current, freq), lastPeriod, freq)

\* the loop of lines 255-275
AcontoPeriods(startPeriods, freq) ==
    [i \in 1 .. Len(startPeriods) |->
        [Start |-> startPeriods[i],
         End |-> PeriodEnd(startPeriods[i], freq),
         Label |-> AcontoLabel(PeriodLabel(startPeriods[i], freq)),
         Frequency |-> freq,
         CalculationType |-> Aconto]]

NumberOfPeriods == 6

\* now stands for the time.Now() the callee reads
GenerateAvailablePeriods(startDate, freq, calcType, now) ==
    IF calcType = Historical
    THEN IF freq \notin {Monthly, Quarterly}
         THEN [periods |-> <<>>, err |-> "error in reading frequency"]
         ELSE LET current == IF freq = Monthly
                             THEN GetFirstCompleteMonth(startDate)
                             ELSE GetFirstCompleteQuarter(startDate)
                  last == GetLastCompletePeriod(freq, now)
              IN  IF last.err # NoError
                  THEN [periods |-> <<>>, err |-> "fatal"]
                  ELSE [periods |-> HistoricalPeriods(current, last.t, freq),
                        err |-> NoError]
    ELSE LET next == GetNextAcontoPeriods(freq, NumberOfPeriods, now)
         IN  IF next.err # NoError
             THEN [periods |-> <<>>, err |-> "error generating aconto periods"]
             ELSE [periods |-> AcontoPeriods(next.starts, freq), err |-> NoError]

----------------------------------------------------------------------------
(* Period classification *)

\* variant: a period that has not ended is taken to have begun
DeterminePeriodType_NoFutureCheck(period, calcType, now) ==
    IF calcType = Historical THEN PeriodHistorical
    ELSE IF period.End < now \/ period.End = now THEN PeriodHistorical
    ELSE IF period.Start = now THEN PeriodAconto
    ELSE PeriodHybrid

\* now is the value of time.Now() read at line 230
DeterminePeriodType(period, calcType, now) ==
    IF calcType = Historical THEN PeriodHistorical
    ELSE IF period.Start > now THEN PeriodAconto
    ELSE IF period.End < now \/ period.End = now THEN PeriodHistorical
    ELSE IF period.Start < now /\ period.End > now THEN PeriodHybrid
    ELSE PeriodAconto

----------------------------------------------------------------------------
(* Consumption estimation *)

\* float64 division a / b of two integers, kept exact: den = 0 stands for the
\* IEEE-754 results +Inf (num > 0), -Inf (num < 0) and NaN (num = 0)
FloatDiv(a, b) == [num |-> a, den |-> b]

IsFinite(x) == x.den # 0

\* int(x) of a float64 quotient a / b, b > 0: truncation toward zero
TruncDiv(a, b) == IF a >= 0 THEN a \div b ELSE -((-a) \div b)

\* variant: the hours are counted from the calendar days of the period
HoursInPeriod_CalendarDays(startDate, endDate) ==
    24 * (((endDate + CopenhagenOffset(endDate)) \div Day)
          - ((startDate + CopenhagenOffset(startDate)) \div Day))

\* lines 258-259: int(endDate.Sub(startDate).Hours())
HoursInPeriod(startDate, endDate) == TruncDiv(endDate - startDate, Hour)

\* lines 264-270, in units of 1/10000 kWh
TotalPeriodConsumption(volume, freq) ==
    IF freq = Monthly THEN volume * 833 ELSE volume * 2500

\* the number of passes of the loop of lines 278-288: the least n with
\* startDate + n hours not before endDate
HourSteps(startDate, endDate) ==
    IF endDate <= startDate THEN 0
    ELSE ((endDate - startDate) + Hour - 1) \div Hour

EstimateConsumptionForPeriod(volume, startDate, endDate, freq) ==
    [series |->
        [i \in 1 .. HourSteps(startDate, endDate) |->
            [DateTime |-> startDate + (i - 1) * Hour,
             Consumption |-> FloatDiv(TotalPeriodConsumption(volume, freq),
                                      HoursInPeriod(startDate, endDate)),
             Quality |-> "ESTIMATED"]],
     err |-> NoError]

----------------------------------------------------------------------------
(* float64 arithmetic on exact rationals.  Amounts of energy are in units of
   1/10000 kWh, prices in DKK per kWh (or per MWh), amounts of money in units
   of 1/10000 DKK.  A denominator 0 is +Inf, -Inf (by the sign of the
   numerator) or NaN (numerator 0). *)

RECURSIVE Gcd(_, _)
Gcd(a, b) == IF b = 0 THEN a ELSE Gcd(b, a % b)

Abs(n) == IF n < 0 THEN -n ELSE n
Sign(n) == IF n < 0 THEN -1 ELSE IF n > 0 THEN 1 ELSE 0

ReduceBy(n, d, g) == [num |-> n \div g, den |-> d \div g]

\* the value of a float64 does not depend on how it was computed: lowest terms
Norm(x) ==
    IF x.den = 0 THEN [num |-> Sign(x.num), den |-> 0]
    ELSE IF x.num = 0 THEN [num |-> 0, den |-> 1]
    ELSE IF x.den < 0 THEN ReduceBy(-x.num, -x.den, Gcd(Abs(x.num), -x.den))
    ELSE ReduceBy(x.num, x.den, Gcd(Abs(x.num), x.den))

Float(n) == [num |-> n, den |-> 1]
Zero == Float(0)
NaN == [num |-> 0, den |-> 0]
IsNaN(x) == x.den = 0 /\ x.num = 0

MulReduced(a, b, g1, g2) ==
    [num |-> (a.num \div g1) * (b.num \div g2),
     den |-> (a.den \div g2) * (b.den \div g1)]

\* a * b
FloatMul(a, b) ==
    IF a.den = 0 \/ b.den = 0
    THEN [num |-> Sign(a.num) * Sign(b.num), den |-> 0]
    ELSE MulReduced(Norm(a), Norm(b),
                    Gcd(Abs(Norm(a).num), Norm(b).den),
                    Gcd(Abs(Norm(b).num), Norm(a).den))

AddFinite(a, b, g) ==
    Norm([num |-> a.num * (b.den \div g) + b.num * (a.den \div g),
          den |-> (a.den \div g) * b.den])

\* a + b
FloatAdd(a, b) ==
    IF IsNaN(a) \/ IsNaN(b) THEN NaN
    ELSE IF a.den = 0 /\ b.den = 0
         THEN (IF Sign(a.num) = Sign(b.num) THEN Norm(a) ELSE NaN)
    ELSE IF a.den = 0 THEN Norm(a)
    ELSE IF b.den = 0 THEN Norm(b)
    ELSE IF a.den = b.den THEN Norm([num |-> a.num + b.num, den |-> a.den])
    ELSE AddFinite(Norm(a), Norm(b), Gcd(Norm(a).den, Norm(b).den))

\* 1 / b
Reciprocal(b) ==
    IF b.den = 0 THEN (IF b.num = 0 THEN NaN ELSE Zero)
    ELSE IF b.num = 0 THEN [num |-> 1, den |-> 0]
    ELSE IF b.num < 0 THEN [num |-> -b.den, den |-> -b.num]
    ELSE [num |-> b.den, den |-> b.num]

\* a / b
FloatQuo(a, b) == FloatMul(Norm(a), Reciprocal(Norm(b)))

\* a == b
FloatEq(a, b) == ~IsNaN(a) /\ ~IsNaN(b) /\ Norm(a) = Norm(b)

\* the sum of values[lo .. hi], accumulated from 0.0.  Exact addition is
\* associative, Inf and NaN included, so the fold of the loop is taken in
\* halves
RECURSIVE SumFrom(_, _, _)
SumFrom(values, lo, hi) ==
    IF lo > hi THEN Zero
    ELSE IF lo = hi THEN FloatAdd(Zero, values[lo])
    ELSE FloatAdd(SumFrom(values, lo, (lo + hi) \div 2),
                  SumFrom(values, (lo + hi) \div 2 + 1, hi))

FloatSum(values) == SumFrom(values, 1, Len(values))

----------------------------------------------------------------------------
(* The tariff cost engine (lib/billing tariffs) *)

\* fmt.Sprintf("%d", n), n >= 0: the decimal digits of n, a string modelled
\* as the sequence of its digits
RECURSIVE FormatInt(_)
FormatInt(n) == IF n < 10 THEN <<n>> ELSE Append(FormatInt(n \div 10), n % 10)

\* t.In(copenhagen).Format("2006-01-02T15:04:05"): the string spells the
\* wall-clock reading and no zone, so it is modelled as that reading
FormatDK(t) == t + CopenhagenOffset(t)

\* variant: the price per MWh is used as the price per kWh
ConvertToKWh_NoConversion(pricePerMWh) == pricePerMWh

\* energinet.ConvertToKWh
ConvertToKWh(pricePerMWh) == FloatQuo(pricePerMWh, Float(1000))

FirstIndex(S) == CHOOSE i \in S : \A j \in S : i <= j

SpotPriceAt(spots, matching) ==
    IF matching = {}
    THEN [price |-> Zero, err |-> "no spot price found for hour"]
    ELSE [price |-> ConvertToKWh(spots[FirstIndex(matching)].SpotPriceDKK),
          err |-> NoError]

\* the records whose HourDK is the string hourDK
RecordsAt(spots, hourDK) == {i \in 1 .. Len(spots) : spots[i].HourDK = hourDK}

GetSpotPriceForHour(hourDateTime, spots) ==
    SpotPriceAt(spots, RecordsAt(spots, FormatDK(hourDateTime)))

\* the loops of lines 121-126 and 133-138: the first price at the position,
\* and the zero value of applicablePrice when there is none
PriceAtPosition(prices, position) ==
    IF \E i \in 1 .. Len(prices) : prices[i].Position = position
    THEN prices[FirstIndex({i \in 1 .. Len(prices) :
                               prices[i].Position = position})].Price
    ELSE Zero

\* variant: the positions are taken to count from 0
ApplicablePrice_ZeroBased(tariff, hourPosition) ==
    IF Len(tariff.Prices) = 1 THEN tariff.Prices[1].Price
    ELSE PriceAtPosition(tariff.Prices, FormatInt(hourPosition - 1))

\* lines 114-140
ApplicablePrice(tariff, hourPosition) ==
    IF tariff.PeriodType = "P1D" /\ Len(tariff.Prices) = 1
    THEN tariff.Prices[1].Price
    ELSE IF tariff.PeriodType = "PT1H" /\ Len(tariff.Prices) = 24
    THEN PriceAtPosition(tariff.Prices, FormatInt(hourPosition))
    ELSE IF Len(tariff.Prices) = 1
    THEN tariff.Prices[1].Price
    ELSE PriceAtPosition(tariff.Prices, FormatInt(hourPosition))

\* result.TariffCosts[name] = cost
MapPut(m, name, cost) ==
    [n \in (DOMAIN m) \cup {name} |-> IF n = name THEN cost ELSE m[n]]

EmptyMap == [n \in {} |-> Zero]

\* the loop of lines 113-146 from tariff i on
RECURSIVE TariffLoop(_, _, _, _, _, _)
TariffLoop(tariffCosts, totalTariffCost, tariffs, i, kWh, hourPosition) ==
    IF i > Len(tariffs)
    THEN [TariffCosts |-> tariffCosts, totalTariffCost |-> totalTariffCost]
    ELSE TariffLoop(
            MapPut(tariffCosts, tariffs[i].Name,
                   FloatMul(kWh, ApplicablePrice(tariffs[i], hourPosition))),
            FloatAdd(totalTariffCost,
                     FloatMul(kWh, ApplicablePrice(tariffs[i], hourPosition))),
            tariffs, i + 1, kWh, hourPosition)

\* lines 91-154, given the outcome of the spot price lookup and of the loop
\* over the tariffs; Warning is the line printed at 105
HourlyTariffCost(hourlyConsumption, spot, loop, supplierPricePerKWh) ==
    [DateTime |-> hourlyConsumption.DateTime,
     Consumption |-> hourlyConsumption.Consumption,
     TariffCosts |-> loop.TariffCosts,
     SupplierCost |-> FloatMul(hourlyConsumption.Consumption, supplierPricePerKWh),
     SpotPrice |-> spot.price,
     SpotCost |-> FloatMul(hourlyConsumption.Consumption, spot.price),
     TotalCost |-> FloatAdd(FloatAdd(loop.totalTariffCost,
                                     FloatMul(hourlyConsumption.Consumption,
                                              supplierPricePerKWh)),
                            FloatMul(hourlyConsumption.Consumption, spot.price)),
     Warning |-> spot.err # NoError]

CalculateHourlyTariffs(hourlyConsumption, charges, supplierPricePerKWh, spots) ==
    HourlyTariffCost(
        hourlyConsumption,
        GetSpotPriceForHour(hourlyConsumption.DateTime, spots),
        TariffLoop(EmptyMap, Zero, charges.Tariffs, 1,
                   hourlyConsumption.Consumption,
                   InCopenhagen(hourlyConsumption.DateTime).hour + 1),
        supplierPricePerKWh)

\* variant: an hour without a spot price is left out of the result
CalculateAllHourlyTariffs_SkipMissing(series, charges, supplierPricePerKWh, spots) ==
    SelectSeq([i \in 1 .. Len(series) |->
                  CalculateHourlyTariffs(series[i], charges,
                                         supplierPricePerKWh, spots)],
              LAMBDA c : ~c.Warning)

CalculateAllHourlyTariffs(series, charges, supplierPricePerKWh, spots) ==
    [i \in 1 .. Len(series) |->
        CalculateHourlyTariffs(series[i], charges,
                               supplierPricePerKWh, spots)]

\* SummarizeTariffCosts: summary[tariffName] += cost over all hours
SummarizeTariffCosts(costs) ==
    [n \in UNION {DOMAIN costs[i].TariffCosts :
                      i \in 1 .. Len(costs)} |->
        FloatSum([i \in 1 .. Len(costs) |->
                     IF n \in DOMAIN costs[i].TariffCosts
                     THEN costs[i].TariffCosts[n]
                     ELSE Zero])]

GetTotalTariffCosts(costs) ==
    FloatSum([i \in 1 .. Len(costs) |-> costs[i].TotalCost])

GetTotalSupplierCosts(costs) ==
    FloatSum([i \in 1 .. Len(costs) |-> costs[i].SupplierCost])

GetTotalSpotCosts(costs) ==
    FloatSum([i \in 1 .. Len(costs) |-> costs[i].SpotCost])

\* eloverblik.GetTotalConsumption
GetTotalConsumption(hourlyConsumptions) ==
    FloatSum([i \in 1 .. Len(hourlyConsumptions) |-> hourlyConsumptions[i].Consumption])

----------------------------------------------------------------------------
(* The totals of the bill (main.go lines 303-390) *)

MonthsInPeriod(freq) == IF freq = Monthly THEN Float(1) ELSE Float(3)

\* subscription.Price * float64(subscription.Quantity) * monthsInPeriod
PeriodCost(subscription, monthsInPeriod) ==
    FloatMul(FloatMul(subscription.Price, Float(subscription.Quantity)),
             monthsInPeriod)

\* the loop of lines 319-324 from subscription i on
RECURSIVE SubscriptionLoop(_, _, _, _, _)
SubscriptionLoop(subscriptionBreakdown, totalSubscriptionCost, subscriptions, i, monthsInPeriod) ==
    IF i > Len(subscriptions)
    THEN [subscriptionBreakdown |-> subscriptionBreakdown,
          totalSubscriptionCost |-> totalSubscriptionCost]
    ELSE SubscriptionLoop(
            MapPut(subscriptionBreakdown, subscriptions[i].Name,
                   PeriodCost(subscriptions[i], monthsInPeriod)),
            FloatAdd(totalSubscriptionCost,
                     PeriodCost(subscriptions[i], monthsInPeriod)),
            subscriptions, i + 1, monthsInPeriod)

\* const VAT_RATE = 0.25
VAT_RATE == [num |-> 25, den |-> 100]

\* variant: the VAT is taken of the usage charges only
BillTotals_VATOnUsage(totalTariffCosts, totalSubscriptionCost) ==
    [totalBill |-> FloatAdd(totalTariffCosts, totalSubscriptionCost),
     totalVAT |-> FloatMul(totalTariffCosts, VAT_RATE),
     totalBillWithVAT |-> FloatAdd(FloatAdd(totalTariffCosts, totalSubscriptionCost),
                                   FloatMul(totalTariffCosts, VAT_RATE))]

\* lines 326-332
BillTotals(totalTariffCosts, totalSubscriptionCost) ==
    [totalBill |-> FloatAdd(totalTariffCosts, totalSubscriptionCost),
     totalVAT |-> FloatMul(FloatAdd(totalTariffCosts, totalSubscriptionCost), VAT_RATE),
     totalBillWithVAT |->
        FloatAdd(FloatAdd(totalTariffCosts, totalSubscriptionCost),
                 FloatMul(FloatAdd(totalTariffCosts, totalSubscriptionCost), VAT_RATE))]

\* what main prints from line 335 on; the last line is the quotient of 390
BillOf(costs, subs, totals, consumed) ==
    [tariffSummary |-> SummarizeTariffCosts(costs),
     totalTariffCosts |-> GetTotalTariffCosts(costs),
     totalSupplierCosts |-> GetTotalSupplierCosts(costs),
     totalSpotCosts |-> GetTotalSpotCosts(costs),
     subscriptionBreakdown |-> subs.subscriptionBreakdown,
     totalSubscriptionCost |-> subs.totalSubscriptionCost,
     totalBill |-> totals.totalBill,
     totalVAT |-> totals.totalVAT,
     totalBillWithVAT |-> totals.totalBillWithVAT,
     averageCostPerKWh |-> FloatQuo(totals.totalBillWithVAT, consumed)]

ComputeBill(costs, charges, freq, consumed) ==
    BillOf(costs,
           SubscriptionLoop(EmptyMap, Zero, charges.Subscriptions, 1, MonthsInPeriod(freq)),
           BillTotals(GetTotalTariffCosts(costs),
                      SubscriptionLoop(EmptyMap, Zero, charges.Subscriptions, 1,
                                       MonthsInPeriod(freq)).totalSubscriptionCost),
           consumed)

NoBill == [totalBill |-> NaN]

----------------------------------------------------------------------------
(* Spot prices: the external source and the estimators (frequency.go) *)

Min(a, b) == IF a < b THEN a ELSE b

\* t.UTC().Format("2006-01-02T15:04:05"): the reading of the UTC clock
FormatUTC(t) == t

\* t.Format("2006-01-02") of a time located in Europe/Copenhagen, as the
\* external source reads it: 00:00 of that civil day
CivilMidnight(c) == DateIn(c.year, c.month, c.day, 0, 0)
FormatDate(t) == CivilMidnight(InCopenhagen(t))

\* the price the external source holds for the hour beginning at t, DKK/MWh
SourcePriceDKK(t) == Float(100 * (1 + ((t \div Hour) % 3)))

EURRate == [num |-> 745, den |-> 100]

SourceRecord(t, area) ==
    [HourUTC |-> FormatUTC(t),
     HourDK |-> FormatDK(t),
     PriceArea |-> area,
     SpotPriceDKK |-> SourcePriceDKK(t),
     SpotPriceEUR |-> FloatQuo(SourcePriceDKK(t), EURRate)]

\* one record per hour of [from, to), latest first (buildURL: sort "HourUTC DESC")
SourceRecords(from, to, area) ==
    [i \in 1 .. HourSteps(from, to) |->
        SourceRecord(from + (HourSteps(from, to) - i) * Hour, area)]

\* what energinet.GetSpotPrices may answer to a request for the dates of
\* startDate and endDate: a failure, no records, or the records of the days
SpotPriceReplies(startDate, endDate, area) ==
    {[records |-> <<>>, err |-> "HTTP request failed"],
     [records |-> <<>>, err |-> NoError],
     [records |-> SourceRecords(FormatDate(startDate), FormatDate(endDate), area),
      err |-> NoError]}

NoReply == [records |-> <<>>, err |-> "no request"]

\* FetchSpotPricesForPeriod, given the answer of the source
FetchSpotPricesForPeriod(answer) ==
    IF answer.err # NoError
    THEN [records |-> <<>>, err |-> "failed to fetch spot prices"]
    ELSE [records |-> answer.records, err |-> NoError]

\* line 297: 0.614029 DKK/kWh, to the 1/100 DKK the prices of the model resolve
EstimatedSpotPriceDKKPerKWh == [num |-> 61, den |-> 100]

\* variant: the hour that begins at endTime is part of the series
FixedSpotSeries_Inclusive(startTime, endTime, area, priceMWh) ==
    [i \in 1 .. HourSteps(startTime, endTime + 1) |->
        [HourUTC |-> FormatUTC(startTime + (i - 1) * Hour),
         HourDK |-> FormatDK(startTime + (i - 1) * Hour),
         PriceArea |-> area,
         SpotPriceDKK |-> priceMWh,
         SpotPriceEUR |-> FloatQuo(priceMWh, EURRate)]]

\* the loops of lines 308-323 and 576-589
FixedSpotSeries(startTime, endTime, area, priceMWh) ==
    [i \in 1 .. HourSteps(startTime, endTime) |->
        [HourUTC |-> FormatUTC(startTime + (i - 1) * Hour),
         HourDK |-> FormatDK(startTime + (i - 1) * Hour),
         PriceArea |-> area,
         SpotPriceDKK |-> priceMWh,
         SpotPriceEUR |-> FloatQuo(priceMWh, EURRate)]]

EstimateSpotPricesForPeriod(startDate, endDate, area) ==
    [records |-> FixedSpotSeries(startDate, endDate, area,
                                 FloatMul(EstimatedSpotPriceDKKPerKWh, Float(1000))),
     err |-> NoError]

generateFixedSpotPricesForPeriod(startTime, endTime, area, fixedPrice) ==
    FixedSpotSeries(startTime, endTime, area, FloatMul(fixedPrice, Float(1000)))

\* variant: each hour takes the price of the same hour of last year's window
AdjustedSpotPrices_ByHour(startDate, endDate, area, historical) ==
    [i \in 1 .. Min(HourSteps(startDate, endDate), Len(historical)) |->
        [HourUTC |-> FormatUTC(startDate + (i - 1) * Hour),
         HourDK |-> FormatDK(startDate + (i - 1) * Hour),
         PriceArea |-> area,
         SpotPriceDKK |-> historical[Len(historical) + 1 - i].SpotPriceDKK,
         SpotPriceEUR |-> historical[Len(historical) + 1 - i].SpotPriceEUR]]

\* lines 345-365: the hours of [startDate, endDate) with the prices of the
\* historical records, as far as those reach
AdjustedSpotPrices(startDate, endDate, area, historical) ==
    [i \in 1 .. Min(HourSteps(startDate, endDate), Len(historical)) |->
        [HourUTC |-> FormatUTC(startDate + (i - 1) * Hour),
         HourDK |-> FormatDK(startDate + (i - 1) * Hour),
         PriceArea |-> area,
         SpotPriceDKK |-> historical[i].SpotPriceDKK,
         SpotPriceEUR |-> historical[i].SpotPriceEUR]]

AdjustedOrError(adjusted) ==
    IF Len(adjusted) = 0
    THEN [records |-> <<>>, err |-> "insufficient historical data available"]
    ELSE [records |-> adjusted, err |-> NoError]

\* answer answers the request for the window one year earlier (lines 331-335)
EstimateHistoricalSpotPricesForPeriod(startDate, endDate, area, answer) ==
    IF FetchSpotPricesForPeriod(answer).err # NoError
    THEN [records |-> <<>>, err |-> "could not fetch historical spot prices"]
    ELSE AdjustedOrError(AdjustedSpotPrices(startDate, endDate, area,
                                            FetchSpotPricesForPeriod(answer).records))

----------------------------------------------------------------------------
(* CreateAcontoEstimation and CreateHybridEstimation (frequency.go) *)

NoEstimation == [EstimationMethod |-> ""]

\* lines 386-404: historical is the outcome of
\* EstimateHistoricalSpotPricesForPeriod, consulted when it was asked for
AcontoSpotPrices(startDate, endDate, area, useHistorical, historical) ==
    IF useHistorical
    THEN IF historical.err # NoError
         THEN [records |-> EstimateSpotPricesForPeriod(startDate, endDate, area).records,
               err |-> EstimateSpotPricesForPeriod(startDate, endDate, area).err,
               method |-> "Fixed spot price estimate (historical data unavailable)"]
         ELSE [records |-> historical.records,
               err |-> NoError,
               method |-> "Historical spot prices from same period last year"]
    ELSE [records |-> EstimateSpotPricesForPeriod(startDate, endDate, area).records,
          err |-> EstimateSpotPricesForPeriod(startDate, endDate, area).err,
          method |-> "Fixed spot price estimate"]

\* lines 406-428
AcontoEstimation(estimatedConsumption, spot, totalEstimated) ==
    [EstimatedConsumption |-> estimatedConsumption,
     EstimatedSpotPrices |-> spot.records,
     EstimationMethod |-> spot.method,
     TotalEstimatedkWh |-> totalEstimated,
     AvgHourlyConsumption |-> FloatQuo(totalEstimated, Float(Len(estimatedConsumption))),
     AvgSpotPrice |->
        FloatQuo(FloatSum([i \in 1 .. Len(spot.records) |->
                              ConvertToKWh(spot.records[i].SpotPriceDKK)]),
                 Float(Len(spot.records))),
     HoursInPeriod |-> Len(estimatedConsumption)]

AcontoOutcome(estimated, spot) ==
    IF estimated.err # NoError
    THEN [estimation |-> NoEstimation, err |-> "failed to estimate consumption"]
    ELSE IF spot.err # NoError
    THEN [estimation |-> NoEstimation, err |-> "failed to estimate spot prices"]
    ELSE [estimation |-> AcontoEstimation(estimated.series, spot,
                                          GetTotalConsumption(estimated.series)),
          err |-> NoError]

\* answer is the answer of the external source to the request of
\* EstimateHistoricalSpotPricesForPeriod
CreateAcontoEstimation(volume, startDate, endDate, area, freq, useHistorical, answer) ==
    AcontoOutcome(
        EstimateConsumptionForPeriod(volume, startDate, endDate, freq),
        AcontoSpotPrices(startDate, endDate, area, useHistorical,
            EstimateHistoricalSpotPricesForPeriod(startDate, endDate, area, answer)))

\* time.Date(now.Year(), now.Month(), now.Day(), now.Hour(), 0, 0, 0, copenhagen)
TruncateToHourCivil(c) == DateIn(c.year, c.month, c.day, c.hour, 0)
TruncateToHour(now) == TruncateToHourCivil(InCopenhagen(now))

\* variant: the prices are taken as known up to the current hour
SpotPriceSplitDateTime_NoLag(now) == TruncateToHour(now)

\* line 446
SpotPriceSplitDateTime(now) == AddDate(TruncateToHour(now), 0, 0, -2)

Retag(series, quality) ==
    [i \in 1 .. Len(series) |->
        [DateTime |-> series[i].DateTime,
         Consumption |-> series[i].Consumption,
         Quality |-> quality]]

\* variant: the hour that begins at the split counts as past
PastConsumption_UpToNow(series, currentDateTime) ==
    Retag(SelectSeq(series, LAMBDA h : h.DateTime <= currentDateTime), "ESTIMATED_PAST")

\* lines 501-515
PastConsumption(series, currentDateTime) ==
    Retag(SelectSeq(series, LAMBDA h : h.DateTime < currentDateTime), "ESTIMATED_PAST")

\* variant: the hour that begins at the split is in neither part
FutureConsumption_AfterSplit(series, currentDateTime) ==
    Retag(SelectSeq(series, LAMBDA h : h.DateTime > currentDateTime), "ESTIMATED_FUTURE")

FutureConsumption(series, currentDateTime) ==
    Retag(SelectSeq(series, LAMBDA h : ~(h.DateTime < currentDateTime)), "ESTIMATED_FUTURE")

\* fmt.Sprintf("Hybrid aconto: %d timer med faktiske spotpriser + %d timer
\* med fast pris (alt forbrug estimeret)", ...)
HybridMethod(actualHours, fixedHours) ==
    [text |-> "Hybrid aconto", actual |-> actualHours, fixed |-> fixedHours]

\* lines 483-535
HybridEstimation(all, actualSpotPrices, estimatedSpotPrices, past, future, currentDateTime, fixedSpotPrice) ==
    [ActualConsumption |-> past,
     ActualSpotPrices |-> actualSpotPrices,
     ActualTotalKWh |-> GetTotalConsumption(past),
     EstimatedConsumption |-> future,
     EstimatedSpotPrices |-> estimatedSpotPrices,
     EstimatedTotalKWh |-> GetTotalConsumption(future),
     CombinedConsumption |-> all,
     CombinedSpotPrices |-> actualSpotPrices \o estimatedSpotPrices,
     TotalEstimatedkWh |-> GetTotalConsumption(all),
     SplitDateTime |-> currentDateTime,
     ActualHours |-> Len(past),
     EstimatedHours |-> Len(future),
     FixedSpotPrice |-> fixedSpotPrice,
     EstimationMethod |-> HybridMethod(Len(actualSpotPrices), Len(estimatedSpotPrices))]

HybridOutcome(estimated, period, area, fixedSpotPrice, currentDateTime, split, fetched) ==
    IF estimated.err # NoError
    THEN [estimation |-> NoEstimation, err |-> "kunne ikke estimere forbrug for periode"]
    ELSE IF split > period.Start /\ fetched.err # NoError
    THEN [estimation |-> NoEstimation, err |-> "kunne ikke hente faktiske spotpriser"]
    ELSE [estimation |->
            HybridEstimation(
                estimated.series,
                IF split > period.Start THEN fetched.records ELSE <<>>,
                IF split > period.Start
                THEN generateFixedSpotPricesForPeriod(split, period.End, area,
                                                      fixedSpotPrice)
                ELSE generateFixedSpotPricesForPeriod(period.Start, period.End,
                                                      area, fixedSpotPrice),
                PastConsumption(estimated.series, currentDateTime),
                FutureConsumption(estimated.series, currentDateTime),
                currentDateTime, fixedSpotPrice),
          err |-> NoError]

\* now is the value of time.Now() read at line 443; answer is the answer of
\* the external source to the request of line 461, consulted when it is made
CreateHybridEstimation(volume, period, freq, area, fixedSpotPrice, now, answer) ==
    HybridOutcome(
        EstimateConsumptionForPeriod(volume, period.Start, period.End, freq),
        period, area, fixedSpotPrice,
        TruncateToHour(now), SpotPriceSplitDateTime(now),
        FetchSpotPricesForPeriod(answer))

\* GetUserFixedSpotPrice: 0.50, 0.61, 0.75 and, for "Indtast selv", 0.75
UserFixedSpotPrices ==
    {[num |-> 50, den |-> 100], [num |-> 61, den |-> 100], [num |-> 75, den |-> 100]}

----------------------------------------------------------------------------
(* Inputs *)

\* BillingFrequency is a string type: any value can be passed
Frequencies == {Monthly, Quarterly, "yearly"}
CalculationTypes == {Historical, Aconto}

\* instants of time.Now(): for each sampled month, on its boundary, one tick
\* after it, inside it (the 10th, 13:00 plus one tick) and one tick before
\* the next boundary (Copenhagen time)
NowSamples ==
    UNION {{DateIn(2023, 1 + i, 1, 0, 0), DateIn(2023, 1 + i, 1, 0, 1),
            DateIn(2023, 1 + i, 10, 13, 1), DateIn(2023, 2 + i, 1, 0, 0) - 1} :
           i \in 0 .. (NumNowMonths - 1)}

\* consumer start dates: for each sampled month, on its boundary, one tick
\* after it, the 15th at midnight and one tick before the next boundary
StartSamples ==
    UNION {{DateIn(2023, 1 + i, 1, 0, 0), DateIn(2023, 1 + i, 1, 0, 1),
            DateIn(2023, 1 + i, 15, 0, 0), DateIn(2023, 2 + i, 1, 0, 0) - 1} :
           i \in 0 .. (NumStartMonths - 1)}

NoPeriod == [Start |-> NoTime, End |-> NoTime]

NoCharges == [Tariffs |-> <<>>, Subscriptions |-> <<>>]

\* nothing of the bill has been computed
InitBill ==
    /\ priceArea = ""
    /\ useHistoricalPrices = FALSE
    /\ reply = NoReply
    /\ spotPrices = <<>>
    /\ estimation = NoEstimation
    /\ totalConsumption = Zero
    /\ chargesData = NoCharges
    /\ hourlyTariffCosts = <<>>
    /\ bill = NoBill
    /\ stages = <<>>

----------------------------------------------------------------------------
(* Period generation as a step of the run (main.go lines 140-153) *)

InitPeriods ==
    /\ pc = "generate"
    /\ clock \in NowSamples
    /\ consumerStartDate \in StartSamples
    /\ frequency \in Frequencies
    /\ calculationType \in CalculationTypes
    /\ periods = <<>>
    /\ err = NoError
    /\ selectedPeriod = NoPeriod
    /\ periodType = ""
    /\ estimatedAnnualVolume = 0
    /\ consumption = <<>>
    /\ InitBill

CallGenerateAvailablePeriods ==
    /\ pc = "generate"
    /\ LET r == GenerateAvailablePeriods(consumerStartDate, frequency,
                                         calculationType, clock)
       IN  /\ periods' = r.periods
           /\ err' = r.err
           /\ pc' = IF r.err # NoError THEN "fatal"
                    ELSE IF Len(r.periods) = 0 THEN "no periods"
                    ELSE "select"
    /\ stages' = Append(stages, "generate")
    /\ UNCHANGED <<clock, consumerStartDate, frequency, calculationType,
                   selectedPeriod, periodType, estimatedAnnualVolume, consumption,
                   billVars>>

SpecPeriods == InitPeriods /\ [][CallGenerateAvailablePeriods]_vars

----------------------------------------------------------------------------
(* Classification as a step of the run (main.go line 164) *)

PeriodOf(start, freq, calcType) ==
    [Start |-> start,
     End |-> PeriodEnd(start, freq),
     Label |-> IF calcType = Aconto
               THEN AcontoLabel(PeriodLabel(start, freq))
               ELSE PlainLabel(PeriodLabel(start, freq)),
     Frequency |-> freq,
     CalculationType |-> calcType]

\* the periods generation produces for the sampled months
SampledPeriods ==
    {PeriodOf(DateIn(2023, 1 + i, 1, 0, 0), Monthly, ct) :
        i \in 0 .. (NumNowMonths - 1), ct \in CalculationTypes}
    \cup {PeriodOf(DateIn(2023, 1 + 3 * i, 1, 0, 0), Quarterly, ct) :
        i \in 0 .. ((NumNowMonths - 1) \div 3), ct \in CalculationTypes}

InitClassify ==
    /\ pc = "classify"
    /\ clock \in NowSamples
    /\ consumerStartDate = DateIn(2023, 1, 1, 0, 0)
    /\ selectedPeriod \in SampledPeriods
    /\ frequency = selectedPeriod.Frequency
    /\ calculationType = selectedPeriod.CalculationType
    /\ periods = <<>>
    /\ err = NoError
    /\ periodType = ""
    /\ estimatedAnnualVolume = 0
    /\ consumption = <<>>
    /\ InitBill

CallDeterminePeriodType ==
    /\ pc = "classify"
    /\ periodType' = DeterminePeriodType(selectedPeriod, calculationType, clock)
    /\ pc' = "price area"
    /\ stages' = Append(stages, "classify")
    /\ UNCHANGED <<clock, consumerStartDate, frequency, calculationType, periods,
                   err, selectedPeriod, estimatedAnnualVolume, consumption,
                   billVars>>

SpecClassify == InitClassify /\ [][CallDeterminePeriodType]_vars

----------------------------------------------------------------------------
(* Consumption estimation as a step of the run *)

AnnualVolumes == {0, 120}

\* start and end of the estimated span: the sampled periods, and every pair
\* of instants up to MaxSpanTicks ticks after 2023-03-01 00:00
SampledSpans ==
    {[Start |-> p.Start, End |-> p.End] : p \in SampledPeriods}
    \cup {[Start |-> DateIn(2023, 3, 1, 0, 0) + a, End |-> DateIn(2023, 3, 1, 0, 0) + b] :
            a \in 0 .. MaxSpanTicks, b \in 0 .. MaxSpanTicks}

InitEstimate ==
    /\ pc = "estimate"
    /\ clock = DateIn(2023, 1, 1, 0, 0)
    /\ consumerStartDate = DateIn(2023, 1, 1, 0, 0)
    /\ selectedPeriod \in SampledSpans
    /\ frequency \in Frequencies
    /\ calculationType = Aconto
    /\ periods = <<>>
    /\ err = NoError
    /\ periodType = PeriodAconto
    /\ estimatedAnnualVolume \in AnnualVolumes
    /\ consumption = <<>>
    /\ InitBill

CallEstimateConsumptionForPeriod ==
    /\ pc = "estimate"
    /\ LET r == EstimateConsumptionForPeriod(estimatedAnnualVolume,
                    selectedPeriod.Start, selectedPeriod.End, frequency)
       IN  /\ consumption' = r.series
           /\ err' = r.err
           /\ pc' = IF r.err # NoError THEN "fatal" ELSE "estimated"
    /\ stages' = Append(stages, "estimate")
    /\ UNCHANGED <<clock, consumerStartDate, frequency, calculationType, periods,
                   selectedPeriod, periodType, estimatedAnnualVolume, billVars>>

SpecEstimate == InitEstimate /\ [][CallEstimateConsumptionForPeriod]_vars

----------------------------------------------------------------------------
(* The cost engine and the totals as steps of the run (main.go 295-390) *)

\* variant: the supplier margin is charged on every bill
SupplierPrice_Always(type) == [num |-> 2, den |-> 100]

\* lines 295-298: 2 øre per kWh for historical calculations only
SupplierPrice(type) ==
    IF type = PeriodHistorical THEN [num |-> 2, den |-> 100] ELSE Zero

DailyTariff(name, price) ==
    [Name |-> name, PeriodType |-> "P1D",
     Prices |-> <<[Position |-> <<1>>, Price |-> price]>>]

\* 0.30 DKK/kWh at position 15, 0.10 or 0.15 DKK/kWh elsewhere
HourlyPrice(position) ==
    IF position = 15 THEN [num |-> 30, den |-> 100]
    ELSE [num |-> 10 + 5 * (position % 2), den |-> 100]

HourlyTariff(name) ==
    [Name |-> name, PeriodType |-> "PT1H",
     Prices |-> [k \in 1 .. 24 |-> [Position |-> FormatInt(k), Price |-> HourlyPrice(k)]]]

\* shapes the charges source is not expected to send: an hourly tariff of
\* three prices (the position "15" twice, the position "01"), a daily tariff
\* of two prices, a tariff of another period type, a tariff without prices
MalformedTariffs ==
    <<[Name |-> "Rabat", PeriodType |-> "PT1H",
       Prices |-> <<[Position |-> <<1, 5>>, Price |-> [num |-> 20, den |-> 100]],
                    [Position |-> <<1, 5>>, Price |-> [num |-> 40, den |-> 100]],
                    [Position |-> <<0, 1>>, Price |-> [num |-> 90, den |-> 100]]>>],
      [Name |-> "Dag", PeriodType |-> "P1D",
       Prices |-> <<[Position |-> <<1>>, Price |-> [num |-> 5, den |-> 100]],
                    [Position |-> <<2>>, Price |-> [num |-> 7, den |-> 100]]>>],
      [Name |-> "Gebyr", PeriodType |-> "P1M",
       Prices |-> <<[Position |-> <<>>, Price |-> [num |-> 50, den |-> 100]]>>],
      [Name |-> "Tom", PeriodType |-> "P1D", Prices |-> <<>>]>>

TariffSchedules ==
    {<<>>,
     <<DailyTariff("Elafgift", [num |-> 15, den |-> 10])>>,
     <<HourlyTariff("Nettarif C")>>,
     <<DailyTariff("Elafgift", [num |-> 15, den |-> 10]), HourlyTariff("Nettarif C")>>,
     MalformedTariffs,
     <<DailyTariff("Elafgift", [num |-> 15, den |-> 10]),
       DailyTariff("Elafgift", [num |-> 5, den |-> 10])>>}

\* prices of subscriptions are in units of 1/10000 DKK per month
SubscriptionLists ==
    {<<>>,
     <<[Name |-> "Abonnement", Price |-> Float(250000), Quantity |-> 1]>>,
     <<[Name |-> "Abonnement", Price |-> Float(250000), Quantity |-> 1],
       [Name |-> "Måler", Price |-> Float(105000), Quantity |-> 2]>>,
     <<[Name |-> "Abonnement", Price |-> Float(250000), Quantity |-> 1],
       [Name |-> "Abonnement", Price |-> Float(80000), Quantity |-> 1]>>,
     <<[Name |-> "Fast", Price |-> Float(5000000), Quantity |-> 2]>>}

ChargesSamples ==
    {[Tariffs |-> t, Subscriptions |-> u] : t \in TariffSchedules, u \in SubscriptionLists}

\* 14:00, 00:00 and 23:00 Copenhagen time, in winter and in summer
HourSamples ==
    {DateIn(2023, 3, 1, 14, 0), DateIn(2023, 3, 1, 0, 0), DateIn(2023, 7, 1, 23, 0)}

\* 0, 1 and 2 kWh
KWhSamples == {Float(0), Float(10000), Float(20000)}

Metered(t, kWh) == [DateTime |-> t, Consumption |-> kWh, Quality |-> "measured"]

\* 02:00 summer time of 2023-10-29; the hour after it is 02:00 winter time
AutumnHour == DateIn(2023, 10, 29, 1, 0) + Hour

ConsumptionSamples ==
    {<<>>}
    \cup {<<Metered(t, v)>> : t \in HourSamples, v \in KWhSamples}
    \cup {<<Metered(DateIn(2023, 3, 1, 14, 0), Float(10000)),
            Metered(DateIn(2023, 3, 1, 0, 0), Float(20000))>>,
          <<Metered(AutumnHour, Float(10000)),
            Metered(AutumnHour + Hour, Float(10000))>>}

SpotAt(t, priceMWh) ==
    [HourUTC |-> FormatUTC(t), HourDK |-> FormatDK(t), PriceArea |-> "DK2",
     SpotPriceDKK |-> Float(priceMWh), SpotPriceEUR |-> FloatQuo(Float(priceMWh), EURRate)]

SpotSamples ==
    {<<>>,
     <<SpotAt(DateIn(2023, 3, 1, 14, 0), 1000)>>,
     <<SpotAt(DateIn(2023, 3, 1, 14, 0), 500), SpotAt(DateIn(2023, 3, 1, 14, 0), 1000)>>,
     <<SpotAt(DateIn(2023, 7, 1, 23, 0), 1000), SpotAt(DateIn(2023, 3, 1, 0, 0), 500)>>,
     <<SpotAt(AutumnHour + Hour, 1000), SpotAt(AutumnHour, 500)>>}

InitCosts ==
    /\ pc = "costs"
    /\ clock = DateIn(2023, 8, 1, 0, 0)
    /\ consumerStartDate = DateIn(2023, 1, 1, 0, 0)
    /\ frequency \in {Monthly, Quarterly}
    /\ calculationType \in CalculationTypes
    /\ periods = <<>>
    /\ err = NoError
    /\ selectedPeriod = NoPeriod
    /\ periodType \in IF calculationType = Historical
                      THEN {PeriodHistorical}
                      ELSE {PeriodHistorical, PeriodAconto, PeriodHybrid}
    /\ estimatedAnnualVolume = 0
    /\ consumption \in ConsumptionSamples
    /\ totalConsumption = GetTotalConsumption(consumption)
    /\ spotPrices \in SpotSamples
    /\ chargesData \in ChargesSamples
    /\ priceArea = "DK2"
    /\ useHistoricalPrices = FALSE
    /\ reply = NoReply
    /\ estimation = NoEstimation
    /\ hourlyTariffCosts = <<>>
    /\ bill = NoBill
    /\ stages = <<>>

CallCalculateAllHourlyTariffs ==
    /\ pc = "costs"
    /\ hourlyTariffCosts' =
          CalculateAllHourlyTariffs(consumption, chargesData,
                                    SupplierPrice(periodType), spotPrices)
    /\ pc' = "aggregate"
    /\ stages' = Append(stages, "costs")
    /\ UNCHANGED <<clock, consumerStartDate, frequency, calculationType, periods,
                   err, selectedPeriod, periodType, estimatedAnnualVolume,
                   consumption, priceArea, useHistoricalPrices, reply, spotPrices,
                   estimation, totalConsumption, chargesData, bill>>

PrintBill ==
    /\ pc = "aggregate"
    /\ bill' = ComputeBill(hourlyTariffCosts, chargesData, frequency, totalConsumption)
    /\ pc' = "done"
    /\ stages' = Append(stages, "bill")
    /\ UNCHANGED <<clock, consumerStartDate, frequency, calculationType, periods,
                   err, selectedPeriod, periodType, estimatedAnnualVolume,
                   consumption, priceArea, useHistoricalPrices, reply, spotPrices,
                   estimation, totalConsumption, chargesData, hourlyTariffCosts>>

SpecCosts == InitCosts /\ [][CallCalculateAllHourlyTariffs \/ PrintBill]_vars

----------------------------------------------------------------------------
(* One run of main.go (lines 140-390): generate the periods, let the user
   select one, classify it, find the price area, obtain the consumption and
   the spot prices from the source of the period type, fetch the charges,
   compute the hourly costs and the bill.  The clock advances while the
   program waits for the user. *)

RunNowSamples ==
    UNION {{DateIn(2023, 3 + i, 1, 0, 0), DateIn(2023, 3 + i, 10, 13, 1)} :
           i \in 0 .. (NumRunMonths - 1)}

\* gridOperator.EstimatedAnnualVolume of a whole run, kWh
RunAnnualVolumes == {0, 2}

\* whole runs are sampled for both calculation types; an aconto run computes
\* the costs of every hour of its period and is sampled for months
Init ==
    /\ pc = "generate"
    /\ clock \in RunNowSamples
    /\ calculationType \in CalculationTypes
    /\ consumerStartDate \in
          IF calculationType = Historical
          THEN {DateIn(2023, 1, 15, 0, 0), DateIn(2023, 3, 1, 0, 0)}
          ELSE {DateIn(2023, 1, 15, 0, 0)}
    /\ frequency \in
          IF calculationType = Historical THEN {Monthly, Quarterly} ELSE {Monthly}
    /\ periods = <<>>
    /\ err = NoError
    /\ selectedPeriod = NoPeriod
    /\ periodType = ""
    /\ estimatedAnnualVolume \in
          IF calculationType = Historical THEN {0} ELSE RunAnnualVolumes
    /\ consumption = <<>>
    /\ InitBill

\* billing.SelectPeriod: the user picks one of the periods, here one of the
\* first MaxChoice
SelectPeriod ==
    /\ pc = "select"
    /\ \E choice \in 1 .. Min(Len(periods), MaxChoice) :
          selectedPeriod' = periods[choice]
    /\ pc' = "classify"
    /\ stages' = Append(stages, "select")
    /\ UNCHANGED <<clock, consumerStartDate, frequency, calculationType, periods,
                   err, periodType, estimatedAnnualVolume, consumption, billVars>>

\* the later readings of the clock: the sampled instants and, once a period
\* is selected, the instant at which it ends
LaterReadings ==
    {t \in RunNowSamples
           \cup (IF pc = "select" THEN {} ELSE {selectedPeriod.End}) : t > clock}

\* time passes between two readings of time.Now(): while the user selects,
\* before the classification, before CreateHybridEstimation reads the clock
Tick ==
    /\ pc \in {"select", "classify", "hybrid"}
    /\ \E t \in LaterReadings : clock' = t
    /\ UNCHANGED <<pc, consumerStartDate, frequency, calculationType, periods,
                   err, selectedPeriod, periodType, estimatedAnnualVolume,
                   consumption, billVars, stages>>

\* what FindPriceArea may return for the grid operator of the meter point
PriceAreaReplies ==
    {[area |-> "DK2", err |-> NoError],
     [area |-> "", err |-> "grid area not found in mapping"]}

\* variant: every period is billed from the metered consumption
SourceOf_AlwaysMetered(type) == "consumption"

\* the switch of main.go line 186; a type of no case leaves the data empty
SourceOf(type) ==
    IF type = PeriodHistorical THEN "consumption"
    ELSE IF type = PeriodAconto THEN "aconto"
    ELSE IF type = PeriodHybrid THEN "hybrid"
    ELSE "charges"

\* main.go lines 167-186
CallFindPriceArea ==
    /\ pc = "price area"
    /\ \E found \in PriceAreaReplies :
          /\ priceArea' = found.area
          /\ err' = found.err
          /\ pc' = IF found.err # NoError THEN "fatal" ELSE SourceOf(periodType)
    /\ stages' = Append(stages, "price area")
    /\ UNCHANGED <<clock, consumerStartDate, frequency, calculationType, periods,
                   selectedPeriod, periodType, estimatedAnnualVolume, consumption,
                   useHistoricalPrices, reply, spotPrices, estimation,
                   totalConsumption, chargesData, hourlyTariffCosts, bill>>

\* what eloverblik.GetConsumptionForPeriod may return: a failure, a time
\* series without points, the first MeteredHours hours from startDate
ConsumptionReplies(startDate) ==
    {[series |-> <<>>, err |-> "API call failed"],
     [series |-> <<>>, err |-> NoError],
     [series |-> [i \in 1 .. MeteredHours |->
                     Metered(startDate + (i - 1) * Hour, Float(10000 * i))],
      err |-> NoError]}

\* main.go lines 189-202
CallGetConsumptionForPeriod ==
    /\ pc = "consumption"
    /\ \E r \in ConsumptionReplies(selectedPeriod.Start) :
          /\ consumption' = r.series
          /\ err' = r.err
          /\ totalConsumption' = IF r.err # NoError THEN totalConsumption
                                 ELSE GetTotalConsumption(r.series)
          /\ pc' = IF r.err # NoError THEN "fatal" ELSE "spot prices"
    /\ stages' = Append(stages, "consumption")
    /\ UNCHANGED <<clock, consumerStartDate, frequency, calculationType, periods,
                   selectedPeriod, periodType, estimatedAnnualVolume, priceArea,
                   useHistoricalPrices, reply, spotPrices, estimation,
                   chargesData, hourlyTariffCosts, bill>>

\* main.go lines 204-210
CallFetchSpotPricesForPeriod ==
    /\ pc = "spot prices"
    /\ \E answer \in SpotPriceReplies(selectedPeriod.Start, selectedPeriod.End,
                                      priceArea) :
          /\ reply' = answer
          /\ spotPrices' = FetchSpotPricesForPeriod(answer).records
          /\ err' = FetchSpotPricesForPeriod(answer).err
          /\ pc' = IF FetchSpotPricesForPeriod(answer).err # NoError
                   THEN "fatal" ELSE "charges"
    /\ stages' = Append(stages, "spot prices")
    /\ UNCHANGED <<clock, consumerStartDate, frequency, calculationType, periods,
                   selectedPeriod, periodType, estimatedAnnualVolume, consumption,
                   priceArea, useHistoricalPrices, estimation, totalConsumption,
                   chargesData, hourlyTariffCosts, bill>>

\* main.go lines 225-243, given what CreateAcontoEstimation returned
UseAcontoEstimation(outcome) ==
    /\ err' = outcome.err
    /\ estimation' = outcome.estimation
    /\ IF outcome.err # NoError
       THEN /\ pc' = "fatal"
            /\ UNCHANGED <<consumption, totalConsumption, spotPrices>>
       ELSE /\ pc' = "charges"
            /\ consumption' = outcome.estimation.EstimatedConsumption
            /\ totalConsumption' = outcome.estimation.TotalEstimatedkWh
            /\ spotPrices' = outcome.estimation.EstimatedSpotPrices

\* main.go lines 212-245: the user chooses the spot price method; the
\* external source answers the request for the window one year earlier
CallCreateAcontoEstimation ==
    /\ pc = "aconto"
    /\ \E useHistorical \in BOOLEAN :
          \E answer \in IF useHistorical
                        THEN SpotPriceReplies(AddDate(selectedPeriod.Start, -1, 0, 0),
                                              AddDate(selectedPeriod.End, -1, 0, 0),
                                              priceArea)
                        ELSE {NoReply} :
             /\ useHistoricalPrices' = useHistorical
             /\ reply' = answer
             /\ UseAcontoEstimation(
                    CreateAcontoEstimation(estimatedAnnualVolume,
                        selectedPeriod.Start, selectedPeriod.End, priceArea,
                        frequency, useHistorical, answer))
    /\ stages' = Append(stages, "aconto")
    /\ UNCHANGED <<clock, consumerStartDate, frequency, calculationType, periods,
                   selectedPeriod, periodType, estimatedAnnualVolume, priceArea,
                   chargesData, hourlyTariffCosts, bill>>

\* main.go lines 264-276, given what CreateHybridEstimation returned
UseHybridEstimation(outcome) ==
    /\ err' = outcome.err
    /\ estimation' = outcome.estimation
    /\ IF outcome.err # NoError
       THEN /\ pc' = "fatal"
            /\ UNCHANGED <<consumption, totalConsumption, spotPrices>>
       ELSE /\ pc' = "charges"
            /\ consumption' = outcome.estimation.CombinedConsumption
            /\ totalConsumption' = outcome.estimation.TotalEstimatedkWh
            /\ spotPrices' = outcome.estimation.CombinedSpotPrices

\* main.go lines 247-277: the user chooses the fixed price; the estimation
\* reads the clock; the external source answers the request for the prices
\* from the start of the period to the split, when that request is made
CallCreateHybridEstimation ==
    /\ pc = "hybrid"
    /\ \E fixedSpotPrice \in UserFixedSpotPrices :
          \E answer \in IF SpotPriceSplitDateTime(clock) > selectedPeriod.Start
                        THEN SpotPriceReplies(selectedPeriod.Start,
                                              SpotPriceSplitDateTime(clock),
                                              priceArea)
                        ELSE {NoReply} :
             /\ reply' = answer
             /\ UseHybridEstimation(
                    CreateHybridEstimation(estimatedAnnualVolume, selectedPeriod,
                        frequency, priceArea, fixedSpotPrice, clock, answer))
    /\ stages' = Append(stages, "hybrid")
    /\ UNCHANGED <<clock, consumerStartDate, frequency, calculationType, periods,
                   selectedPeriod, periodType, estimatedAnnualVolume, priceArea,
                   useHistoricalPrices, chargesData, hourlyTariffCosts, bill>>

\* what eloverblik.GetCharges may return
ChargesReplies ==
    {[charges |-> NoCharges, err |-> "failed to get charges"],
     [charges |-> [Tariffs |-> <<DailyTariff("Elafgift", [num |-> 15, den |-> 10]),
                                 HourlyTariff("Nettarif C")>>,
                   Subscriptions |->
                       <<[Name |-> "Abonnement", Price |-> Float(2500),
                          Quantity |-> 1]>>],
      err |-> NoError]}

\* main.go lines 284-290
CallGetCharges ==
    /\ pc = "charges"
    /\ \E r \in ChargesReplies :
          /\ chargesData' = r.charges
          /\ err' = r.err
          /\ pc' = IF r.err # NoError THEN "fatal" ELSE "costs"
    /\ stages' = Append(stages, "charges")
    /\ UNCHANGED <<clock, consumerStartDate, frequency, calculationType, periods,
                   selectedPeriod, periodType, estimatedAnnualVolume, consumption,
                   priceArea, useHistoricalPrices, reply, spotPrices, estimation,
                   totalConsumption, hourlyTariffCosts, bill>>

Next ==
    \/ CallGenerateAvailablePeriods
    \/ SelectPeriod
    \/ Tick
    \/ CallDeterminePeriodType
    \/ CallFindPriceArea
    \/ CallGetConsumptionForPeriod
    \/ CallFetchSpotPricesForPeriod
    \/ CallCreateAcontoEstimation
    \/ CallCreateHybridEstimation
    \/ CallGetCharges
    \/ CallCalculateAllHourlyTariffs
    \/ PrintBill

Spec == Init /\ [][Next]_vars

----------------------------------------------------------------------------
(* The estimations as steps of the run, for the sampled periods of both
   frequencies (main.go lines 212-277) *)

\* aconto periods of the sampled months: February, March and October 2023
\* (28 days, the days on which summer time begins and ends) and the last
\* quarter of 2023
SampledAcontoPeriods ==
    {p \in SampledPeriods :
        /\ p.CalculationType = Aconto
        /\ \/ p.Frequency = Monthly
              /\ p.Start \in {DateIn(2023, 2, 1, 0, 0), DateIn(2023, 3, 1, 0, 0),
                               DateIn(2023, 10, 1, 0, 0)}
           \/ p.Frequency = Quarterly /\ p.Start = DateIn(2023, 10, 1, 0, 0)}

\* the readings of the clock from the start of the period to its end
InitHybrid ==
    /\ pc = "hybrid"
    /\ selectedPeriod \in SampledAcontoPeriods
    /\ clock \in {t \in NowSamples :
                     selectedPeriod.Start <= t /\ t <= selectedPeriod.End}
    /\ consumerStartDate = DateIn(2023, 1, 1, 0, 0)
    /\ frequency = selectedPeriod.Frequency
    /\ calculationType = Aconto
    /\ periods = <<>>
    /\ err = NoError
    /\ periodType = PeriodHybrid
    /\ estimatedAnnualVolume \in RunAnnualVolumes
    /\ consumption = <<>>
    /\ priceArea = "DK2"
    /\ useHistoricalPrices = FALSE
    /\ reply = NoReply
    /\ spotPrices = <<>>
    /\ estimation = NoEstimation
    /\ totalConsumption = Zero
    /\ chargesData = NoCharges
    /\ hourlyTariffCosts = <<>>
    /\ bill = NoBill
    /\ stages = <<>>

SpecHybrid == InitHybrid /\ [][CallCreateHybridEstimation]_vars

\* aconto periods whose window one year earlier is as long as the period
\* (February and October 2023) and shorter (February 2024, a leap year)
AcontoMonths ==
    {p \in SampledPeriods :
        /\ p.CalculationType = Aconto
        /\ p.Frequency = Monthly
        /\ p.Start \in {DateIn(2023, 2, 1, 0, 0), DateIn(2023, 10, 1, 0, 0),
                         DateIn(2024, 2, 1, 0, 0)}}

\* the readings of the clock of the month before the period
InitAconto ==
    /\ pc = "aconto"
    /\ selectedPeriod \in AcontoMonths
    /\ clock \in {t \in NowSamples :
                     /\ AddDate(selectedPeriod.Start, 0, -1, 0) <= t
                     /\ t <= selectedPeriod.Start}
    /\ consumerStartDate = DateIn(2023, 1, 1, 0, 0)
    /\ frequency = selectedPeriod.Frequency
    /\ calculationType = Aconto
    /\ periods = <<>>
    /\ err = NoError
    /\ periodType = PeriodAconto
    /\ estimatedAnnualVolume \in RunAnnualVolumes
    /\ consumption = <<>>
    /\ priceArea \in {"DK1", "DK2"}
    /\ useHistoricalPrices = FALSE
    /\ reply = NoReply
    /\ spotPrices = <<>>
    /\ estimation = NoEstimation
    /\ totalConsumption = Zero
    /\ chargesData = NoCharges
    /\ hourlyTariffCosts = <<>>
    /\ bill = NoBill
    /\ stages = <<>>

SpecAconto == InitAconto /\ [][CallCreateAcontoEstimation]_vars

----------------------------------------------------------------------------
(* The fixed-price spot estimators on their own (frequency.go lines 295-326
   and 567-592), for the sampled spans *)

InitFixed ==
    /\ pc = "fixed"
    /\ clock = DateIn(2023, 1, 1, 0, 0)
    /\ consumerStartDate = DateIn(2023, 1, 1, 0, 0)
    /\ selectedPeriod \in SampledSpans
    /\ frequency = Monthly
    /\ calculationType = Aconto
    /\ periods = <<>>
    /\ err = NoError
    /\ periodType = PeriodAconto
    /\ estimatedAnnualVolume = 0
    /\ consumption = <<>>
    /\ priceArea \in {"DK1", "DK2"}
    /\ useHistoricalPrices = FALSE
    /\ reply = NoReply
    /\ spotPrices = <<>>
    /\ estimation = NoEstimation
    /\ totalConsumption = Zero
    /\ chargesData = NoCharges
    /\ hourlyTariffCosts = <<>>
    /\ bill = NoBill
    /\ stages = <<>>

CallEstimateSpotPricesForPeriod ==
    /\ pc = "fixed"
    /\ spotPrices' = EstimateSpotPricesForPeriod(selectedPeriod.Start,
                          selectedPeriod.End, priceArea).records
    /\ err' = EstimateSpotPricesForPeriod(selectedPeriod.Start,
                   selectedPeriod.End, priceArea).err
    /\ estimation' = [EstimationMethod |-> "Fixed spot price estimate",
                      FixedSpotPrice |-> EstimatedSpotPriceDKKPerKWh]
    /\ pc' = "priced"
    /\ stages' = Append(stages, "estimate spot")
    /\ UNCHANGED <<clock, consumerStartDate, frequency, calculationType, periods,
                   selectedPeriod, periodType, estimatedAnnualVolume, consumption,
                   priceArea, useHistoricalPrices, reply, totalConsumption,
                   chargesData, hourlyTariffCosts, bill>>

CallGenerateFixedSpotPricesForPeriod ==
    /\ pc = "fixed"
    /\ \E fixedPrice \in UserFixedSpotPrices :
          /\ spotPrices' = generateFixedSpotPricesForPeriod(selectedPeriod.Start,
                                selectedPeriod.End, priceArea, fixedPrice)
          /\ estimation' = [EstimationMethod |-> "", FixedSpotPrice |-> fixedPrice]
    /\ pc' = "priced"
    /\ stages' = Append(stages, "fixed spot")
    /\ UNCHANGED <<clock, consumerStartDate, frequency, calculationType, periods,
                   err, selectedPeriod, periodType, estimatedAnnualVolume,
                   consumption, priceArea, useHistoricalPrices, reply,
                   totalConsumption, chargesData, hourlyTariffCosts, bill>>

SpecFixed ==
    InitFixed
    /\ [][CallEstimateSpotPricesForPeriod \/ CallGenerateFixedSpotPricesForPeriod]_vars

----------------------------------------------------------------------------
(* Calendar vocabulary of the properties *)

CivilOnMonthBoundary(c) == c.day = 1 /\ c.hour = 0 /\ c.sub = 0
OnMonthBoundary(t) == CivilOnMonthBoundary(InCopenhagen(t))

CivilOnQuarterBoundary(c) == CivilOnMonthBoundary(c) /\ c.month \in {1, 4, 7, 10}
OnQuarterBoundary(t) == CivilOnQuarterBoundary(InCopenhagen(t))

OnBoundary(t, freq) ==
    IF freq = Monthly THEN OnMonthBoundary(t) ELSE OnQuarterBoundary(t)

\* months since year 0 of the month an instant lies in
CivilMonthIndex(c) == 12 * c.year + c.month - 1
MonthIndex(t) == CivilMonthIndex(InCopenhagen(t))

\* 00:00 Copenhagen time on the 1st of the month with index n
BoundaryOfIndex(n) == DateIn(n \div 12, (n % 12) + 1, 1, 0, 0)

PeriodMonths(freq) == IF freq = Monthly THEN 1 ELSE 3

\* the instant k calendar months after the boundary t
MonthsAfter(t, k) == BoundaryOfIndex(MonthIndex(t) + k)

MonthBoundaries == {DateIn(y, m, 1, 0, 0) : y \in 2022 .. 2026, m \in 1 .. 12}
QuarterBoundaries == {DateIn(y, m, 1, 0, 0) : y \in 2022 .. 2026, m \in {1, 4, 7, 10}}
Boundaries(freq) == IF freq = Monthly THEN MonthBoundaries ELSE QuarterBoundaries

ValidFrequency == frequency \in {Monthly, Quarterly}
GeneratedHistorical == pc # "generate" /\ calculationType = Historical /\ ValidFrequency
GeneratedAconto == pc # "generate" /\ calculationType = Aconto /\ ValidFrequency

\* r is the first boundary of B strictly after s
FirstBoundaryAfter(s, r, B) ==
    r \in B /\ r > s /\ ~ \E b \in B : s < b /\ b < r

----------------------------------------------------------------------------
(* C2: every period of historical generation starts at 00:00 on the 1st of a
   calendar month (Monthly) or of a quarter Jan/Apr/Jul/Oct (Quarterly) in
   Copenhagen time, has start < end with end = start + 1 (3) calendar
   months, and the sequence is strictly increasing and contiguous. *)
C2_HistoricalPeriodsWellFormed ==
    GeneratedHistorical =>
        \A i \in 1 .. Len(periods) :
            /\ OnBoundary(periods[i].Start, frequency)
            /\ periods[i].Start < periods[i].End
            /\ periods[i].End = MonthsAfter(periods[i].Start, PeriodMonths(frequency))
            /\ i < Len(periods) =>
                   /\ periods[i + 1].Start = periods[i].End
                   /\ periods[i].Start < periods[i + 1].Start

\* quarterly periods across the October change to winter time
C2_Witness ==
    /\ GeneratedHistorical
    /\ frequency = Quarterly
    /\ Len(periods) >= 3
    /\ \E i \in 1 .. Len(periods) : InCopenhagen(periods[i].Start).month = 10

(* C3: historical generation returns exactly one period, of calculation type
   Historical, for every period start s with first complete period start
   <= s <= last complete period start, and nothing else; it returns the empty
   sequence without error when first > last.  Consumer start 2023-05-15,
   Monthly, now on 2023-08-10 gives exactly June 2023 and July 2023. *)
FirstCompletePeriodStart ==
    IF frequency = Monthly
    THEN GetFirstCompleteMonth(consumerStartDate)
    ELSE GetFirstCompleteQuarter(consumerStartDate)

ExpectedStarts(first, last) ==
    {s \in Boundaries(frequency) : first <= s /\ s <= last}

HistoricalExactly(first, last) ==
    /\ err = NoError
    /\ {periods[i].Start : i \in 1 .. Len(periods)} = ExpectedStarts(first, last)
    /\ Len(periods) = Cardinality(ExpectedStarts(first, last))
    /\ \A i \in 1 .. Len(periods) : periods[i].CalculationType = Historical
    /\ first > last => (periods = <<>> /\ pc = "no periods")

C3_Instance ==
    (/\ consumerStartDate = DateIn(2023, 5, 15, 0, 0)
     /\ frequency = Monthly
     /\ clock = DateIn(2023, 8, 10, 13, 1))
    => /\ Len(periods) = 2
       /\ periods[1].Start = DateIn(2023, 6, 1, 0, 0)
       /\ periods[1].Label = [name |-> "June", year |-> 2023, suffix |-> ""]
       /\ periods[2].Start = DateIn(2023, 7, 1, 0, 0)
       /\ periods[2].Label = [name |-> "July", year |-> 2023, suffix |-> ""]

C3_HistoricalPeriodsExact ==
    GeneratedHistorical =>
        /\ HistoricalExactly(FirstCompletePeriodStart,
                             GetLastCompletePeriod(frequency, clock).t)
        /\ C3_Instance

C3_Witness ==
    /\ GeneratedHistorical
    /\ consumerStartDate = DateIn(2023, 5, 15, 0, 0)
    /\ frequency = Monthly
    /\ clock = DateIn(2023, 8, 10, 13, 1)
    /\ Len(periods) = 2

(* C4: GetFirstCompleteMonth (GetFirstCompleteQuarter) is the first month
   (quarter) boundary strictly after the consumer start: it is later than the
   consumer start and no boundary lies strictly between them; the first
   historical period starts there. *)
C4_FirstCompletePeriodStart ==
    GeneratedHistorical =>
        /\ FirstBoundaryAfter(consumerStartDate,
                              GetFirstCompleteMonth(consumerStartDate), MonthBoundaries)
        /\ FirstBoundaryAfter(consumerStartDate,
                              GetFirstCompleteQuarter(consumerStartDate), QuarterBoundaries)
        /\ Len(periods) > 0 => periods[1].Start = FirstCompletePeriodStart

\* a consumer start exactly on the December boundary
C4_Witness ==
    /\ GeneratedHistorical
    /\ consumerStartDate = DateIn(2023, 12, 1, 0, 0)
    /\ Len(periods) > 0
    /\ periods[1].Start = DateIn(2024, 1, 1, 0, 0)

(* C5: GetLastCompletePeriod returns the start s of the most recent period
   that is fully past: the period starting at s ends at or before now and the
   period after it ends strictly after now; the last historical period starts
   at s. *)
LastCompleteAt(s, now) ==
    /\ s \in Boundaries(frequency)
    /\ MonthsAfter(s, PeriodMonths(frequency)) <= now
    /\ MonthsAfter(s, 2 * PeriodMonths(frequency)) > now

C5_LastCompletePeriodStart ==
    GeneratedHistorical =>
        /\ GetLastCompletePeriod(frequency, clock).err = NoError
        /\ LastCompleteAt(GetLastCompletePeriod(frequency, clock).t, clock)
        /\ Len(periods) > 0 =>
               periods[Len(periods)].Start = GetLastCompletePeriod(frequency, clock).t

\* now in January: the last complete month is December of the year before
C5_Witness ==
    /\ GeneratedHistorical
    /\ frequency = Monthly
    /\ InCopenhagen(clock).month = 1
    /\ Len(periods) > 0
    /\ InCopenhagen(periods[Len(periods)].Start).month = 12
    /\ InCopenhagen(periods[Len(periods)].Start).year = InCopenhagen(clock).year - 1

(* C6: for a frequency that is neither Monthly nor Quarterly, generation
   fails with an error and returns no periods, for both calculation types. *)
C6_InvalidFrequencyFails ==
    (pc # "generate" /\ ~ ValidFrequency) =>
        (err # NoError /\ periods = <<>> /\ pc = "fatal")

C6_Witness ==
    /\ pc = "fatal"
    /\ ~ ValidFrequency
    /\ calculationType = Aconto
    /\ err = "error generating aconto periods"

(* C7: aconto generation returns exactly 6 periods for a valid frequency, all
   of calculation type Aconto with a label suffixed "(Aconto)"; each starts
   on a month (quarter) boundary, ends 1 (3) calendar months later, and each
   period's end is the next period's start. *)
C7_AcontoPeriodsWellFormed ==
    GeneratedAconto =>
        /\ err = NoError
        /\ Len(periods) = 6
        /\ \A i \in 1 .. Len(periods) :
            /\ periods[i].CalculationType = Aconto
            /\ periods[i].Label.suffix = "(Aconto)"
            /\ OnBoundary(periods[i].Start, frequency)
            /\ periods[i].End = MonthsAfter(periods[i].Start, PeriodMonths(frequency))
            /\ i < Len(periods) => periods[i + 1].Start = periods[i].End

\* quarterly aconto periods that run across a year boundary
C7_Witness ==
    /\ GeneratedAconto
    /\ frequency = Quarterly
    /\ Len(periods) = 6
    /\ \E i \in 1 .. 5 :
           InCopenhagen(periods[i + 1].Start).year = InCopenhagen(periods[i].Start).year + 1

(* C8: the first aconto period is, for Monthly, the calendar month containing
   now; for Quarterly it starts at the first quarter boundary strictly after
   now. *)
C8_FirstAcontoPeriod ==
    (GeneratedAconto /\ Len(periods) > 0) =>
        IF frequency = Monthly
        THEN periods[1].Start <= clock /\ clock < periods[1].End
        ELSE FirstBoundaryAfter(clock, periods[1].Start, QuarterBoundaries)

----------------------------------------------------------------------------
(* C1: DeterminePeriodType returns Historical for calculation type
   Historical; otherwise Aconto when the period starts after now; otherwise
   Historical when the period ends at or before now; otherwise
   (start <= now < end) Hybrid. *)
C1_Classification ==
    periodType # "" =>
        /\ periodType \in {PeriodHistorical, PeriodAconto, PeriodHybrid}
        /\ calculationType = Historical => periodType = PeriodHistorical
        /\ (calculationType # Historical /\ selectedPeriod.Start > clock)
               => periodType = PeriodAconto
        /\ (calculationType # Historical /\ selectedPeriod.Start <= clock
              /\ selectedPeriod.End <= clock)
               => periodType = PeriodHistorical
        /\ (calculationType # Historical /\ selectedPeriod.Start <= clock
              /\ clock < selectedPeriod.End)
               => periodType = PeriodHybrid

----------------------------------------------------------------------------
(* Vocabulary of the estimation properties *)

Estimated == pc = "estimated"
SpanStart == selectedPeriod.Start
SpanEnd == selectedPeriod.End

\* the series holds one record per hour of [start, end), beginning at start
HourlyFrom(series, start, end) ==
    /\ \A i \in 1 .. Len(series) : series[i].DateTime = start + (i - 1) * Hour
    /\ Len(series) > 0 /\ series[Len(series)].DateTime < end
    /\ start + Len(series) * Hour >= end

\* every record is tagged estimated and carries total / hours, and the
\* records sum to total (in units of 1/10000 kWh)
UniformTotal(series, total, hours) ==
    /\ \A i \in 1 .. Len(series) :
        /\ series[i].Quality = "ESTIMATED"
        /\ IsFinite(series[i].Consumption)
        /\ series[i].Consumption.num = total
        /\ series[i].Consumption.den = hours
    /\ Len(series) * total = total * hours

EstimateAsClaimed ==
    /\ err = NoError
    /\ Len(consumption) = HoursInPeriod(SpanStart, SpanEnd)
    /\ HourlyFrom(consumption, SpanStart, SpanEnd)
    /\ UniformTotal(consumption,
                    estimatedAnnualVolume * (IF frequency = Monthly THEN 833 ELSE 2500),
                    Len(consumption))

(* C9, as stated: for any start < end the estimator produces exactly
   hoursInPeriod records, one per consecutive hour of [start, end) from
   start, each tagged estimated and carrying total / hoursInPeriod, summing
   to annualVolume x 0.0833 (Monthly) or x 0.25 (Quarterly). *)
C9_AnySpan ==
    (Estimated /\ SpanStart < SpanEnd) => EstimateAsClaimed

(* C9, amended: the same for any start < end that lie a whole number of
   hours apart, which includes the months of 743 and 745 hours. *)
C9_WholeHourSpan ==
    (Estimated /\ SpanStart < SpanEnd /\ (SpanEnd - SpanStart) % Hour = 0)
        => EstimateAsClaimed

\* October 2023, 745 hours, estimated with a positive annual volume
C9_Witness ==
    /\ Estimated
    /\ SpanStart = DateIn(2023, 10, 1, 0, 0)
    /\ SpanEnd = DateIn(2023, 11, 1, 0, 0)
    /\ frequency = Monthly
    /\ estimatedAnnualVolume > 0
    /\ Len(consumption) = 745

(* C10: the estimator fails, returning an error and no series, when
   hoursInPeriod = 0 (start >= end); it never divides by a zero hour
   count. *)
C10_ZeroHoursFails ==
    (pc \in {"estimated", "fatal"}
       /\ (SpanStart >= SpanEnd \/ HoursInPeriod(SpanStart, SpanEnd) = 0))
        => (err # NoError /\ pc = "fatal" /\ consumption = <<>>)

----------------------------------------------------------------------------
(* Vocabulary of the hybrid estimation properties *)

\* CreateHybridEstimation has returned an estimation
Hybridised == "CombinedConsumption" \in DOMAIN estimation

NowInPeriod == selectedPeriod.Start <= clock /\ clock < selectedPeriod.End

(* C11: for a period with start <= now < end, the hybrid estimation has
   len(past) + len(future) = len(combined) = hoursInPeriod, the combined
   spot prices are as many as the actual and the fixed-price records
   together, and the counts of the estimation method are the lengths of
   these two series of spot prices. *)
C11_HybridSplitting ==
    (Hybridised /\ NowInPeriod) =>
        /\ Len(estimation.ActualConsumption) + Len(estimation.EstimatedConsumption)
              = Len(estimation.CombinedConsumption)
        /\ Len(estimation.CombinedConsumption)
              = HoursInPeriod(selectedPeriod.Start, selectedPeriod.End)
        /\ Len(estimation.CombinedSpotPrices)
              = Len(estimation.ActualSpotPrices) + Len(estimation.EstimatedSpotPrices)
        /\ estimation.EstimationMethod.actual = Len(estimation.ActualSpotPrices)
        /\ estimation.EstimationMethod.fixed = Len(estimation.EstimatedSpotPrices)
        /\ estimation.ActualHours = Len(estimation.ActualConsumption)
        /\ estimation.EstimatedHours = Len(estimation.EstimatedConsumption)

\* a hybrid estimation with hours on both sides of now and with actual and
\* fixed spot prices
C11_Witness ==
    /\ Hybridised
    /\ NowInPeriod
    /\ Len(estimation.ActualConsumption) > 0
    /\ Len(estimation.EstimatedConsumption) > 0
    /\ Len(estimation.ActualSpotPrices) > 0
    /\ Len(estimation.EstimatedSpotPrices) > 0

----------------------------------------------------------------------------
(* Vocabulary of the properties of the cost engine and of the totals *)

Costed == pc \in {"aggregate", "done"}
Billed == pc = "done"

\* two finite floats have the same value
SameValue(a, b) ==
    /\ IsFinite(a) /\ IsFinite(b)
    /\ a.num * b.den = b.num * a.den

\* the product of a finite amount and a finite price
Times(a, b) == [num |-> a.num * b.num, den |-> a.den * b.den]

\* p, the position of the hour of an instant: its hour of the day in
\* Copenhagen time, counted from 1
PositionOf(t) == InCopenhagen(t).hour + 1

\* the number a string of decimal digits spells
RECURSIVE DigitsValue(_)
DigitsValue(digits) ==
    IF Len(digits) = 0 THEN 0
    ELSE 10 * DigitsValue(SubSeq(digits, 1, Len(digits) - 1)) + digits[Len(digits)]

\* the position string is the decimal numeral of p
PositionEquals(position, p) ==
    /\ Len(position) > 0
    /\ position[1] # 0
    /\ DigitsValue(position) = p

PricesAt(tariff, p) ==
    {k \in 1 .. Len(tariff.Prices) : PositionEquals(tariff.Prices[k].Position, p)}

\* the price the claim assigns to a tariff at position p
ClaimedPrice(tariff, p) ==
    IF Len(tariff.Prices) = 1 THEN tariff.Prices[1].Price
    ELSE IF PricesAt(tariff, p) = {} THEN Zero
    ELSE tariff.Prices[CHOOSE k \in PricesAt(tariff, p) :
                           \A j \in PricesAt(tariff, p) : k <= j].Price

\* tariff j is the last of the schedule with its name
LastOfName(list, j) ==
    \A k \in (j + 1) .. Len(list) : list[k].Name # list[j].Name

\* the sum of the values a map holds
RECURSIVE SumOfMap(_, _)
SumOfMap(m, names) ==
    IF names = {} THEN Zero
    ELSE FloatAdd(m[CHOOSE n \in names : TRUE],
                  SumOfMap(m, names \ {CHOOSE n \in names : TRUE}))

(* C12: with p = localHour + 1 in 1..24 (Copenhagen time), the cost recorded
   under a tariff's name is consumption x applicablePrice, where a tariff
   of exactly one price applies that price to every hour (daily-fixed P1D
   included), an hourly tariff of 24 prices applies the price whose position
   equals p, and any other shape applies the first price whose position
   equals p, else 0.  Instances: 1.5 DKK/kWh x 2 kWh = 3.0 DKK; 0.3 DKK/kWh
   at position 15 with 1 kWh at local hour 14 = 0.3 DKK. *)
C12_TariffMatching ==
    Costed =>
        \A i \in 1 .. Len(hourlyTariffCosts) :
            /\ PositionOf(consumption[i].DateTime) \in 1 .. 24
            /\ \A j \in 1 .. Len(chargesData.Tariffs) :
                  LastOfName(chargesData.Tariffs, j) =>
                      /\ chargesData.Tariffs[j].Name
                            \in DOMAIN hourlyTariffCosts[i].TariffCosts
                      /\ SameValue(
                            hourlyTariffCosts[i].TariffCosts[chargesData.Tariffs[j].Name],
                            Times(consumption[i].Consumption,
                                  ClaimedPrice(chargesData.Tariffs[j],
                                               PositionOf(consumption[i].DateTime))))
            /\ (/\ chargesData.Tariffs = <<DailyTariff("Elafgift", [num |-> 15, den |-> 10])>>
                /\ SameValue(consumption[i].Consumption, Float(20000)))
                  => hourlyTariffCosts[i].TariffCosts["Elafgift"] = Float(30000)
            /\ (/\ chargesData.Tariffs = <<HourlyTariff("Nettarif C")>>
                /\ InCopenhagen(consumption[i].DateTime).hour = 14
                /\ SameValue(consumption[i].Consumption, Float(10000)))
                  => hourlyTariffCosts[i].TariffCosts["Nettarif C"] = Float(3000)

\* 1 kWh at 14:00 and 2 kWh at 00:00 under a daily and an hourly tariff
C12_Witness ==
    /\ Costed
    /\ Len(hourlyTariffCosts) = 2
    /\ chargesData.Tariffs = <<DailyTariff("Elafgift", [num |-> 15, den |-> 10]),
                               HourlyTariff("Nettarif C")>>
    /\ hourlyTariffCosts[1].TariffCosts["Nettarif C"] = Float(3000)
    /\ hourlyTariffCosts[2].TariffCosts["Elafgift"] = Float(30000)

\* the Copenhagen local-hour string of an instant, spelled from its civil reading
LocalHourCivil(c) == WallTicks(c.year, c.month, c.day, c.hour, c.sub)
LocalHourString(t) == LocalHourCivil(InCopenhagen(t))

RecordsFor(t) ==
    {k \in 1 .. Len(spotPrices) : spotPrices[k].HourDK = LocalHourString(t)}

FirstRecordFor(t) ==
    spotPrices[CHOOSE k \in RecordsFor(t) : \A j \in RecordsFor(t) : k <= j]

(* C13: the spot price of an hour is SpotPriceDKK / 1000 of the first record
   whose HourDK equals the Copenhagen local-hour string of the consumption
   instant (1000 DKK/MWh gives 1.0 DKK/kWh); when no record matches, the hour
   gets spot price 0 and spot cost 0, a warning is emitted and a result is
   still returned for the hour. *)
C13_SpotPriceLookup ==
    /\ ConvertToKWh(Float(1000)) = Float(1)
    /\ Costed =>
        /\ Len(hourlyTariffCosts) = Len(consumption)
        /\ \A i \in 1 .. Len(hourlyTariffCosts) :
              IF RecordsFor(consumption[i].DateTime) # {}
              THEN /\ SameValue(hourlyTariffCosts[i].SpotPrice,
                                [num |-> FirstRecordFor(consumption[i].DateTime).SpotPriceDKK.num,
                                 den |-> 1000 * FirstRecordFor(consumption[i].DateTime).SpotPriceDKK.den])
                   /\ SameValue(hourlyTariffCosts[i].SpotCost,
                                Times(consumption[i].Consumption,
                                      hourlyTariffCosts[i].SpotPrice))
                   /\ ~hourlyTariffCosts[i].Warning
              ELSE /\ hourlyTariffCosts[i].SpotPrice = Zero
                   /\ hourlyTariffCosts[i].SpotCost = Zero
                   /\ hourlyTariffCosts[i].Warning

\* an hour with two records (the first is used) and an hour with none
C13_Witness ==
    /\ Costed
    /\ Len(hourlyTariffCosts) = 2
    /\ Cardinality(RecordsFor(consumption[1].DateTime)) = 2
    /\ hourlyTariffCosts[1].SpotPrice = [num |-> 1, den |-> 2]
    /\ hourlyTariffCosts[1].SpotCost = Float(5000)
    /\ RecordsFor(consumption[2].DateTime) = {}
    /\ hourlyTariffCosts[2].Warning

(* C14: every hour's totalCost = (sum of the values stored in tariffCosts)
   + supplierCost + spotCost, for every tariff schedule, including schedules
   in which two tariffs share a name. *)
C14_TotalIsSumOfParts ==
    Costed =>
        \A i \in 1 .. Len(hourlyTariffCosts) :
            FloatEq(hourlyTariffCosts[i].TotalCost,
                    FloatAdd(FloatAdd(SumOfMap(hourlyTariffCosts[i].TariffCosts,
                                               DOMAIN hourlyTariffCosts[i].TariffCosts),
                                      hourlyTariffCosts[i].SupplierCost),
                             hourlyTariffCosts[i].SpotCost))

(* C15: per-hour data gaps never abort a bill: for any consumption series,
   tariff schedule (malformed shapes and missing positions included) and
   spot price series (an empty one included) the cost engine returns exactly
   one result per consumption record, in the same order and with the same
   instant and consumption, and the aggregation that follows produces a
   bill. *)
C15_GapsNeverAbort ==
    /\ pc \in {"costs", "aggregate", "done"}
    /\ err = NoError
    /\ Costed =>
        /\ Len(hourlyTariffCosts) = Len(consumption)
        /\ \A i \in 1 .. Len(consumption) :
              /\ hourlyTariffCosts[i].DateTime = consumption[i].DateTime
              /\ hourlyTariffCosts[i].Consumption = consumption[i].Consumption
    /\ Billed => bill # NoBill

\* a bill from malformed tariffs and no spot prices at all
C15_Witness ==
    /\ Billed
    /\ chargesData.Tariffs = MalformedTariffs
    /\ spotPrices = <<>>
    /\ Len(hourlyTariffCosts) = 2
    /\ \A i \in 1 .. 2 : hourlyTariffCosts[i].Warning
    /\ bill # NoBill

(* C16: subtotal = total tariff costs (the sum over the hours of totalCost,
   supplier and spot costs included) + total subscriptions; VAT = subtotal
   x 0.25; final = subtotal + VAT.  Instance: subtotal 1000.00 DKK gives VAT
   250.00 DKK and total 1250.00 DKK. *)
C16_BillTotals ==
    Billed =>
        /\ FloatEq(bill.totalBill,
                   FloatAdd(FloatSum([i \in 1 .. Len(hourlyTariffCosts) |->
                                         hourlyTariffCosts[i].TotalCost]),
                            bill.totalSubscriptionCost))
        /\ SameValue(Times(bill.totalVAT, Float(4)), bill.totalBill)
        /\ FloatEq(bill.totalBillWithVAT, FloatAdd(bill.totalBill, bill.totalVAT))
        /\ FloatEq(bill.totalBill, Float(10000000))
              => /\ bill.totalVAT = Float(2500000)
                 /\ bill.totalBillWithVAT = Float(12500000)

\* a bill of exactly 1000.00 DKK before VAT
C16_Witness ==
    /\ Billed
    /\ bill.totalBill = Float(10000000)
    /\ bill.totalBillWithVAT = Float(12500000)

(* C17: the cost of a subscription per name = unitPrice x quantity x
   monthsInPeriod (1 for Monthly, 3 for Quarterly), whatever the hours of the
   period; the grand subscription total is the sum of these costs over all
   subscriptions and equals the sum of the values of the per-name
   breakdown. *)
C17_SubscriptionCosts ==
    Billed =>
        /\ \A j \in 1 .. Len(chargesData.Subscriptions) :
              LastOfName(chargesData.Subscriptions, j) =>
                  SameValue(bill.subscriptionBreakdown[chargesData.Subscriptions[j].Name],
                            Times(chargesData.Subscriptions[j].Price,
                                  Float(chargesData.Subscriptions[j].Quantity
                                        * (IF frequency = Monthly THEN 1 ELSE 3))))
        /\ FloatEq(bill.totalSubscriptionCost,
                   FloatSum([j \in 1 .. Len(chargesData.Subscriptions) |->
                               Times(chargesData.Subscriptions[j].Price,
                                     Float(chargesData.Subscriptions[j].Quantity
                                           * (IF frequency = Monthly THEN 1 ELSE 3)))]))
        /\ FloatEq(bill.totalSubscriptionCost,
                   SumOfMap(bill.subscriptionBreakdown,
                            DOMAIN bill.subscriptionBreakdown))

----------------------------------------------------------------------------
(* C18: the average cost per kWh = final / total consumption is computed
   only when the total consumption is not zero: no bill carries the quotient
   of a division by zero. *)
C18_AverageGuarded ==
    Billed => (~FloatEq(totalConsumption, Zero) /\ IsFinite(bill.averageCostPerKWh))

----------------------------------------------------------------------------
(* Vocabulary of the aconto estimation properties *)

\* CreateAcontoEstimation has been called
Acontoed == \E i \in 1 .. Len(stages) : stages[i] = "aconto"

FellBack ==
    estimation.EstimationMethod
        = "Fixed spot price estimate (historical data unavailable)"

(* C19: with historical prices requested, CreateAcontoEstimation falls back
   to the fixed-price method only when the historical data is unavailable
   (the source answered with zero records), never on another error; after a
   fallback the estimation succeeds with one fixed-price record per hour of
   the period and its method states that historical data was unavailable. *)
C19_FallbackOnlyWhenNoData ==
    Acontoed =>
        /\ FellBack =>
              /\ useHistoricalPrices
              /\ reply.err = NoError
              /\ Len(reply.records) = 0
              /\ err = NoError \/ pc = "fatal"
              /\ Len(estimation.EstimatedSpotPrices)
                    = HourSteps(selectedPeriod.Start, selectedPeriod.End)
              /\ \A i \in 1 .. Len(estimation.EstimatedSpotPrices) :
                    FloatEq(ConvertToKWh(estimation.EstimatedSpotPrices[i].SpotPriceDKK),
                            EstimatedSpotPriceDKKPerKWh)
        /\ (useHistoricalPrices /\ reply.err = NoError /\ Len(reply.records) = 0)
              => FellBack
        /\ (useHistoricalPrices /\ reply.err # NoError) => ~FellBack

----------------------------------------------------------------------------
(* Vocabulary of the properties of a whole run *)

IsPrefix(s, t) == Len(s) <= Len(t) /\ \A i \in 1 .. Len(s) : s[i] = t[i]

\* the stages of a run that bills a period of the type, in their order
StagesOf(type) ==
    <<"generate", "select", "classify", "price area">>
    \o (IF type = PeriodHistorical THEN <<"consumption", "spot prices">>
        ELSE IF type = PeriodAconto THEN <<"aconto">>
        ELSE <<"hybrid">>)
    \o <<"charges", "costs", "bill">>

\* the source returned without error and the run went on
Sourced == pc \in {"charges", "costs", "aggregate", "done"}

FromMetered ==
    /\ estimation = NoEstimation
    /\ \E r \in ConsumptionReplies(selectedPeriod.Start) :
          r.err = NoError /\ consumption = r.series
    /\ reply \in SpotPriceReplies(selectedPeriod.Start, selectedPeriod.End, priceArea)
    /\ reply.err = NoError
    /\ spotPrices = reply.records

FromAconto ==
    /\ estimation =
          CreateAcontoEstimation(estimatedAnnualVolume, selectedPeriod.Start,
              selectedPeriod.End, priceArea, frequency, useHistoricalPrices,
              reply).estimation
    /\ estimation # NoEstimation
    /\ consumption = estimation.EstimatedConsumption
    /\ spotPrices = estimation.EstimatedSpotPrices

FromHybrid ==
    /\ Hybridised
    /\ estimation =
          CreateHybridEstimation(estimatedAnnualVolume, selectedPeriod, frequency,
              priceArea, estimation.FixedSpotPrice, clock, reply).estimation
    /\ consumption = estimation.CombinedConsumption
    /\ spotPrices = estimation.CombinedSpotPrices

(* C20: a run goes through its stages in strict order (generate, select,
   classify, obtain consumption and spot prices, charges, hourly costs,
   aggregate); the data come from the source of the derived period type
   (Historical: fetched consumption and fetched spot prices of [start, end);
   Aconto: CreateAcontoEstimation; Hybrid: CreateHybridEstimation); the cost
   engine runs only after the source returned without error; an empty list
   of periods ends the run before classification with no bill; a run
   produces exactly one bill. *)
C20_StagesInOrder ==
    /\ IF periodType = ""
       THEN IsPrefix(stages, <<"generate", "select">>)
       ELSE /\ periodType \in {PeriodHistorical, PeriodAconto, PeriodHybrid}
            /\ IsPrefix(stages, StagesOf(periodType))
    /\ Sourced =>
          /\ periodType = PeriodHistorical => FromMetered
          /\ periodType = PeriodAconto => FromAconto
          /\ periodType = PeriodHybrid => FromHybrid
    /\ pc \in {"aggregate", "done"} =>
          /\ err = NoError
          /\ \E i \in 1 .. Len(stages) : stages[i] = "charges"
          /\ Len(hourlyTariffCosts) = Len(consumption)
          /\ \A i \in 1 .. Len(consumption) :
                hourlyTariffCosts[i].DateTime = consumption[i].DateTime
    /\ pc = "no periods" =>
          (stages = <<"generate">> /\ periodType = "" /\ bill = NoBill)
    /\ pc = "fatal" => (err # NoError /\ bill = NoBill)
    /\ pc = "done" <=> bill # NoBill
    /\ pc = "done" <=> (periodType # "" /\ stages = StagesOf(periodType))

\* a finished run that billed a historical period from fetched data
C20_Witness ==
    /\ pc = "done"
    /\ periodType = PeriodHistorical
    /\ Len(consumption) > 0
    /\ Len(spotPrices) > 0
    /\ bill # NoBill

----------------------------------------------------------------------------
(* Vocabulary of the properties of the spot prices of an estimation *)

\* the instant whose Copenhagen wall-clock reading is w
InstantOfWall(w) == CHOOSE t \in (w - 3 * Hour) .. w : FormatDK(t) = w

\* now minus two days, rounded down to the hour, on the Copenhagen clock
ClaimedSplit(now) ==
    InstantOfWall(FormatDK(now) - (FormatDK(now) % Hour) - 2 * Day)

\* series has one record for each of the hours from, from + 1h, ... before
\* to, in that order, and no other
OneRecordPerHour(series, from, to) ==
    /\ \A i \in 1 .. Len(series) : series[i].HourUTC = from + (i - 1) * Hour
    /\ \A i \in 1 .. Len(series) : series[i].HourUTC < to
    /\ from + Len(series) * Hour >= to \/ (Len(series) = 0 /\ from >= to)

\* every record has the price of pricePerKWh DKK per kWh, in DKK per MWh
AllAtPrice(series, pricePerKWh) ==
    \A i \in 1 .. Len(series) :
        FloatEq(series[i].SpotPriceDKK, Times(pricePerKWh, Float(1000)))

(* C21: with split = now - 2 days rounded down to the hour, if split >
   period.start the actual prices are fetched for [period.start, split) and
   fixed-price records are generated for exactly the hours of [split,
   period.end); otherwise nothing is fetched and fixed-price records are
   generated for every hour of [period.start, period.end).  The combined
   series is the actual series followed by the fixed-price series. *)
C21_HybridSpotSplit ==
    Hybridised =>
        /\ IF ClaimedSplit(clock) > selectedPeriod.Start
           THEN /\ reply \in SpotPriceReplies(selectedPeriod.Start,
                                              ClaimedSplit(clock), priceArea)
                /\ reply.err = NoError
                /\ estimation.ActualSpotPrices = reply.records
                /\ OneRecordPerHour(estimation.EstimatedSpotPrices,
                                    ClaimedSplit(clock), selectedPeriod.End)
           ELSE /\ reply = NoReply
                /\ estimation.ActualSpotPrices = <<>>
                /\ OneRecordPerHour(estimation.EstimatedSpotPrices,
                                    selectedPeriod.Start, selectedPeriod.End)
        /\ AllAtPrice(estimation.EstimatedSpotPrices, estimation.FixedSpotPrice)
        /\ estimation.CombinedSpotPrices
              = estimation.ActualSpotPrices \o estimation.EstimatedSpotPrices

\* a hybrid estimation with fetched prices up to the split and fixed prices
\* after it
C21_Witness ==
    /\ Hybridised
    /\ ClaimedSplit(clock) > selectedPeriod.Start
    /\ Len(estimation.ActualSpotPrices) > 0
    /\ Len(estimation.EstimatedSpotPrices) > 0
    /\ estimation.EstimatedSpotPrices[1].HourUTC = ClaimedSplit(clock)

----------------------------------------------------------------------------
(* Vocabulary of the properties of the consumption of a hybrid estimation *)

\* now, rounded down to the hour on the Copenhagen clock
ClaimedNowHour(now) == InstantOfWall(FormatDK(now) - (FormatDK(now) % Hour))

\* the number of records of the series before the instant
HoursBefore(series, t) ==
    Cardinality({i \in 1 .. Len(series) : series[i].DateTime < t})

\* part is series[first .. first + Len(part) - 1] with the tag replaced
RetaggedSlice(part, series, first, tag) ==
    \A i \in 1 .. Len(part) :
        /\ part[i].DateTime = series[first + i - 1].DateTime
        /\ part[i].Consumption = series[first + i - 1].Consumption
        /\ part[i].Quality = tag

(* C22: in CreateHybridEstimation the consumption of the whole period comes
   from the annual-volume estimator and no metered consumption is fetched;
   every record with instant < now (truncated to the hour) is in the past
   series tagged ESTIMATED_PAST, every other record is in the future series
   tagged ESTIMATED_FUTURE, with instants and kWh values unchanged and equal
   in both parts; the combined series keeps the values and the tag of the
   estimator. *)
C22_HybridPartition ==
    Hybridised =>
        /\ \A i \in 1 .. Len(stages) : stages[i] # "consumption"
        /\ consumption = estimation.CombinedConsumption
        /\ \A i \in 1 .. Len(estimation.CombinedConsumption) :
              /\ estimation.CombinedConsumption[i].Quality = "ESTIMATED"
              /\ estimation.CombinedConsumption[i].DateTime
                    = selectedPeriod.Start + (i - 1) * Hour
              /\ SameValue(estimation.CombinedConsumption[i].Consumption,
                           FloatDiv((IF frequency = Monthly THEN 833 ELSE 2500)
                                        * estimatedAnnualVolume,
                                    Len(estimation.CombinedConsumption)))
        /\ Len(estimation.ActualConsumption)
              = HoursBefore(estimation.CombinedConsumption, ClaimedNowHour(clock))
        /\ Len(estimation.ActualConsumption) + Len(estimation.EstimatedConsumption)
              = Len(estimation.CombinedConsumption)
        /\ RetaggedSlice(estimation.ActualConsumption,
                         estimation.CombinedConsumption, 1, "ESTIMATED_PAST")
        /\ RetaggedSlice(estimation.EstimatedConsumption,
                         estimation.CombinedConsumption,
                         Len(estimation.ActualConsumption) + 1, "ESTIMATED_FUTURE")

\* a hybrid estimation of a positive volume whose first future hour is the
\* current hour
C22_Witness ==
    /\ Hybridised
    /\ estimatedAnnualVolume > 0
    /\ Len(estimation.ActualConsumption) > 0
    /\ Len(estimation.EstimatedConsumption) > 0
    /\ estimation.EstimatedConsumption[1].DateTime = ClaimedNowHour(clock)
    /\ estimation.EstimatedConsumption[1].Quality = "ESTIMATED_FUTURE"

----------------------------------------------------------------------------
(* C23: the supplier cost of an hour is its consumption times the supplier
   rate, and the rate depends only on the derived period type: 0 for Aconto
   and Hybrid, 0.02 DKK/kWh for Historical, also when the period was
   requested as aconto; the total supplier cost of every Aconto and Hybrid
   bill is 0. *)
C23_SupplierCosts ==
    /\ Costed =>
          /\ Len(hourlyTariffCosts) = Len(consumption)
          /\ \A i \in 1 .. Len(hourlyTariffCosts) :
                SameValue(hourlyTariffCosts[i].SupplierCost,
                          Times(consumption[i].Consumption,
                                IF periodType = PeriodHistorical
                                THEN [num |-> 2, den |-> 100]
                                ELSE Zero))
    /\ Billed /\ periodType \in {PeriodAconto, PeriodHybrid} =>
          SameValue(bill.totalSupplierCosts, Zero)

\* a bill requested as aconto and classified Historical that charges the margin
C23_Witness ==
    /\ Billed
    /\ calculationType = Aconto
    /\ periodType = PeriodHistorical
    /\ bill.totalSupplierCosts.num > 0

----------------------------------------------------------------------------
\* the cost of the hour under the name, nothing when the hour has no such entry
EntryOf(cost, name) ==
    IF name \in DOMAIN cost.TariffCosts THEN cost.TariffCosts[name] ELSE Zero

(* C24: the summary maps each tariff name to the sum over all hours of the
   hour's tariffCosts entry, the supplier and spot totals are the sums of
   supplierCost and spotCost over all hours, and (sum of the per-name tariff
   totals) + total supplier cost + total spot cost equals GetTotalTariffCosts,
   the sum over hours of totalCost. *)
C24_AggregationConsistent ==
    Billed =>
        /\ DOMAIN bill.tariffSummary
              = UNION {DOMAIN hourlyTariffCosts[i].TariffCosts :
                          i \in 1 .. Len(hourlyTariffCosts)}
        /\ \A n \in DOMAIN bill.tariffSummary :
              SameValue(bill.tariffSummary[n],
                        FloatSum([i \in 1 .. Len(hourlyTariffCosts) |->
                                     EntryOf(hourlyTariffCosts[i], n)]))
        /\ SameValue(bill.totalSupplierCosts,
                     FloatSum([i \in 1 .. Len(hourlyTariffCosts) |->
                                  hourlyTariffCosts[i].SupplierCost]))
        /\ SameValue(bill.totalSpotCosts,
                     FloatSum([i \in 1 .. Len(hourlyTariffCosts) |->
                                  hourlyTariffCosts[i].SpotCost]))
        /\ SameValue(bill.totalTariffCosts,
                     FloatSum([i \in 1 .. Len(hourlyTariffCosts) |->
                                  hourlyTariffCosts[i].TotalCost]))
        /\ SameValue(FloatAdd(FloatAdd(SumOfMap(bill.tariffSummary,
                                                DOMAIN bill.tariffSummary),
                                       bill.totalSupplierCosts),
                              bill.totalSpotCosts),
                     bill.totalTariffCosts)

\* the same for the bills whose tariffs have distinct names
C24_ConsistentForDistinctNames ==
    (\A i, j \in 1 .. Len(chargesData.Tariffs) :
        chargesData.Tariffs[i].Name = chargesData.Tariffs[j].Name => i = j)
    => C24_AggregationConsistent

----------------------------------------------------------------------------
(* Vocabulary of the properties of the spot price estimators *)

\* the same reading of the Copenhagen clock one year earlier
OneYearEarlierCivil(c) == DateIn(c.year - 1, c.month, c.day, c.hour, c.sub)
OneYearEarlier(t) == OneYearEarlierCivil(InCopenhagen(t))

WholeHours(from, to) == (to - from) \div Hour

\* the record carries the hour fields of the i-th hour from the instant on
StampedAsHour(record, from, i, area) ==
    /\ record.HourUTC = from + (i - 1) * Hour
    /\ record.HourDK = LocalHourString(from + (i - 1) * Hour)
    /\ record.PriceArea = area

(* C25: EstimateHistoricalSpotPricesForPeriod requests the prices of the same
   window one year earlier and returns min(hoursInPeriod, number of
   historical records) records; the i-th has the hour fields of the i-th hour
   of [start, end) and the DKK and EUR prices of the i-th historical record;
   it fails when the fetch fails or no records are available. *)
C25_HistoricalSpotPrices ==
    Acontoed /\ useHistoricalPrices =>
        /\ reply \in SpotPriceReplies(OneYearEarlier(selectedPeriod.Start),
                                      OneYearEarlier(selectedPeriod.End), priceArea)
        /\ IF reply.err # NoError \/ Len(reply.records) = 0
           THEN /\ EstimateHistoricalSpotPricesForPeriod(selectedPeriod.Start,
                        selectedPeriod.End, priceArea, reply).err # NoError
                /\ FellBack
           ELSE /\ EstimateHistoricalSpotPricesForPeriod(selectedPeriod.Start,
                        selectedPeriod.End, priceArea, reply).err = NoError
                /\ EstimateHistoricalSpotPricesForPeriod(selectedPeriod.Start,
                        selectedPeriod.End, priceArea, reply).records
                      = estimation.EstimatedSpotPrices
                /\ Len(estimation.EstimatedSpotPrices)
                      = Min(WholeHours(selectedPeriod.Start, selectedPeriod.End),
                            Len(reply.records))
                /\ \A i \in 1 .. Len(estimation.EstimatedSpotPrices) :
                      /\ StampedAsHour(estimation.EstimatedSpotPrices[i],
                                       selectedPeriod.Start, i, priceArea)
                      /\ estimation.EstimatedSpotPrices[i].SpotPriceDKK
                            = reply.records[i].SpotPriceDKK
                      /\ estimation.EstimatedSpotPrices[i].SpotPriceEUR
                            = reply.records[i].SpotPriceEUR

\* February 2024 estimated from the 672 hours of February 2023
C25_Witness ==
    /\ Acontoed /\ useHistoricalPrices
    /\ Len(reply.records) > 0
    /\ Len(reply.records) < WholeHours(selectedPeriod.Start, selectedPeriod.End)
    /\ Len(estimation.EstimatedSpotPrices) = Len(reply.records)
    /\ estimation.EstimatedSpotPrices[1].SpotPriceDKK = reply.records[1].SpotPriceDKK
    /\ estimation.EstimatedSpotPrices[1].SpotPriceDKK
          # estimation.EstimatedSpotPrices[2].SpotPriceDKK

----------------------------------------------------------------------------
FixedPriced == pc = "priced"

(* C26: EstimateSpotPricesForPeriod and generateFixedSpotPricesForPeriod
   return exactly one record per hour of [start, end), counted from start,
   all with the same price (pricePerKWh x 1000, DKK/MWh) and the given price
   area, each stamped with the Copenhagen local-hour string of its hour; for
   start >= end they return an empty series. *)
C26_FixedSpotSeries ==
    FixedPriced =>
        /\ OneRecordPerHour(spotPrices, selectedPeriod.Start, selectedPeriod.End)
        /\ \A i \in 1 .. Len(spotPrices) :
              StampedAsHour(spotPrices[i], selectedPeriod.Start, i, priceArea)
        /\ AllAtPrice(spotPrices, estimation.FixedSpotPrice)
        /\ stages = <<"estimate spot">> =>
              estimation.FixedSpotPrice = [num |-> 61, den |-> 100]
        /\ selectedPeriod.Start >= selectedPeriod.End => spotPrices = <<>>

\* the 745 hours of October 2023 at the price the user chose, the hour
\* 02:00 of the last Sunday stamped twice
C26_Witness ==
    /\ FixedPriced
    /\ stages = <<"fixed spot">>
    /\ selectedPeriod.Start = DateIn(2023, 10, 1, 0, 0)
    /\ selectedPeriod.End = DateIn(2023, 11, 1, 0, 0)
    /\ Len(spotPrices) = 745
    /\ \E i \in 1 .. 744 : spotPrices[i].HourDK = spotPrices[i + 1].HourDK
    /\ spotPrices[1].SpotPriceDKK.num > 0

\* an empty series for a span that ends before it starts
C26_WitnessEmpty ==
    /\ FixedPriced
    /\ selectedPeriod.Start > selectedPeriod.End
    /\ spotPrices = <<>>

----------------------------------------------------------------------------
\* the source answered with one record per hour of the dates it was asked
\* for, or was not asked
SourceAnsweredInFull ==
    \/ reply = NoReply
    \/ reply = [records |-> SourceRecords(FormatDate(selectedPeriod.Start),
                                          FormatDate(ClaimedSplit(clock)), priceArea),
                err |-> NoError]

InstantsOf(series) == {series[i].DateTime : i \in 1 .. Len(series)}
HoursUTCOf(series) == {series[k].HourUTC : k \in 1 .. Len(series)}
HoursDKOf(series) == {series[k].HourDK : k \in 1 .. Len(series)}

(* C27: in a Hybrid computation, if the source returns one record per hour
   of the range it is asked for, the combined spot price series has exactly
   one record for every hour of [period.start, period.end): the fetched
   range and the fixed-price range neither overlap nor leave a gap, and
   every hour of the combined consumption finds a spot price. *)
C27_HybridSpotCoverage ==
    Hybridised /\ SourceAnsweredInFull =>
        /\ Len(estimation.CombinedSpotPrices) = Len(estimation.CombinedConsumption)
        /\ HoursUTCOf(estimation.CombinedSpotPrices)
              = InstantsOf(estimation.CombinedConsumption)
        /\ \A i \in 1 .. Len(estimation.CombinedConsumption) :
              LocalHourString(estimation.CombinedConsumption[i].DateTime)
                  \in HoursDKOf(estimation.CombinedSpotPrices)

\* the same for the hybrid computations whose split instant is at midnight
\* or not after the start of the period
C27_CoverageAtMidnightSplit ==
    (Hybridised
        /\ \/ ClaimedSplit(clock) <= selectedPeriod.Start
           \/ FormatDate(ClaimedSplit(clock)) = ClaimedSplit(clock))
    => C27_HybridSpotCoverage

----------------------------------------------------------------------------
\* the classification of the i-th generated period at the same reading of
\* the clock
TypeOfGenerated(i) == DeterminePeriodType(periods[i], Aconto, clock)

(* C28: for a fixed now, every period returned by aconto generation has
   end > now, so its classification is Aconto or Hybrid, never Historical;
   at most the first period is Hybrid (Monthly: the month containing now)
   and all later ones are Aconto; for Quarterly every period is Aconto. *)
C28_AcontoPeriodsNeverPast ==
    GeneratedAconto =>
        \A i \in 1 .. Len(periods) :
            /\ periods[i].End > clock
            /\ TypeOfGenerated(i) \in {PeriodAconto, PeriodHybrid}
            /\ i >= 2 => TypeOfGenerated(i) = PeriodAconto
            /\ frequency = Quarterly => TypeOfGenerated(i) = PeriodAconto
            /\ TypeOfGenerated(i) = PeriodHybrid =>
                  /\ frequency = Monthly
                  /\ periods[i].Start <= clock /\ clock < periods[i].End

\* monthly periods generated inside a month: the first is Hybrid, the
\* second Aconto
C28_Witness ==
    /\ GeneratedAconto
    /\ frequency = Monthly
    /\ Len(periods) = 6
    /\ TypeOfGenerated(1) = PeriodHybrid
    /\ TypeOfGenerated(2) = PeriodAconto

\* quarterly periods generated inside a quarter
C28_WitnessQuarterly ==
    /\ GeneratedAconto
    /\ frequency = Quarterly
    /\ Len(periods) = 6
    /\ periods[1].Start > clock
    /\ TypeOfGenerated(1) = PeriodAconto

----------------------------------------------------------------------------
(* C29: the clock is read independently by the generation, by
   DeterminePeriodType and by CreateHybridEstimation; whenever a period is
   classified Hybrid and then passed to CreateHybridEstimation, the instant
   that partitions the consumption (now truncated to the hour) satisfies
   period.start <= split < period.end, so the future series is not empty and
   EstimatedHours >= 1. *)
C29_HybridSplitInPeriod ==
    periodType = PeriodHybrid /\ Hybridised =>
        /\ selectedPeriod.Start <= estimation.SplitDateTime
        /\ estimation.SplitDateTime < selectedPeriod.End
        /\ Len(estimation.EstimatedConsumption) >= 1
        /\ estimation.EstimatedHours >= 1

----------------------------------------------------------------------------
\* the series has at most one record per hour, each stamped with the
\* Copenhagen local-hour string of its hour
StampedPerHour(spots) ==
    /\ \A k \in 1 .. Len(spots) : spots[k].HourDK = LocalHourString(spots[k].HourUTC)
    /\ \A j, k \in 1 .. Len(spots) : spots[j].HourUTC = spots[k].HourUTC => j = k

(* C30: for a spot price series with one record per hour whose HourDK is the
   Copenhagen local-hour string of that hour, GetSpotPriceForHour(t) returns
   the price of the record of the same instant t, also for the two instants
   that share one local-hour string when summer time ends: each gets the
   price of its own record. *)
C30_PriceOfSameInstant ==
    Costed /\ StampedPerHour(spotPrices) =>
        \A i \in 1 .. Len(hourlyTariffCosts) :
            \A k \in 1 .. Len(spotPrices) :
                spotPrices[k].HourUTC = consumption[i].DateTime =>
                    /\ ~hourlyTariffCosts[i].Warning
                    /\ SameValue(hourlyTariffCosts[i].SpotPrice,
                                 FloatQuo(spotPrices[k].SpotPriceDKK, Float(1000)))

\* the same for the instants whose local-hour string no other record carries
C30_PriceWhenStringUnique ==
    Costed /\ StampedPerHour(spotPrices) =>
        \A i \in 1 .. Len(hourlyTariffCosts) :
            \A k \in 1 .. Len(spotPrices) :
                (/\ spotPrices[k].HourUTC = consumption[i].DateTime
                 /\ Cardinality(RecordsFor(consumption[i].DateTime)) = 1) =>
                    /\ ~hourlyTariffCosts[i].Warning
                    /\ SameValue(hourlyTariffCosts[i].SpotPrice,
                                 FloatQuo(spotPrices[k].SpotPriceDKK, Float(1000)))

====
